---- MODULE Spec2Model ----
(***************************************************************************)
(* Model of the WordPress -> Payload migration scripts of jlam-staging:    *)
(*   migrate-from-wordpress.ts  (posts,  src/unnamed/part_000)             *)
(*   migrate-wordpress-page.ts  (pages,  src/scripts/deploy-blue-green.sh, *)
(*                               lines 87-672)                             *)
(* A run is one invocation of a script.  JavaScript runs the code between  *)
(* two awaits without interruption, so one action of the model is: the     *)
(* pending awaited call returns (or throws), and the continuation runs up  *)
(* to the next await, whose call it issues.                                *)
(***************************************************************************)
EXTENDS Integers, Sequences, FiniteSets, TLC

\* Number of script invocations that may overlap in time (Spec).
MaxRuns == 2
\* Number of script invocations run one after the other (SpecSeq).
MaxSeqRuns == 2

VARIABLES
  pc,          \* per run: "idle", the awaited call in flight, or "exited"
  script,      \* per run: "post" | "page" | "-" (not yet invoked)
  slugArg,     \* per run: the --slug= argument: "none" | "empty" | "given"
  dryRun,      \* per run: --dry-run given
  wp,          \* per run: the fetched content node
  findResult,  \* per run: what the find returned: "-" (not yet) | "no" | "yes"
  existingId,  \* per run: id of existing.docs[0] (0: none)
  heroImageId, \* per run: media id returned by uploadImage (0: null)
  imageFailed, \* per run: uploadImage returned null after a failure
  nBlocks,     \* per run: number of blocks the conversion produced (0: not converted)
  thrown,      \* per run: the step that threw ("-": none did)
  exitCode,    \* per run: process exit status (-1: still running)
  calls,       \* per run: how often each external call was issued
  posts,       \* content store: documents of collection 'posts' with the slug
  pages,       \* content store: documents of collection 'pages' with the slug
  media,       \* content store: documents of collection 'media'
  convKind,    \* SpecConv: the converter under study ("none" in the run specs)
  convIn,      \* SpecConv: its input markup
  convOut,     \* SpecConv: what it returned
  convDone,    \* SpecConv: it has returned
  deploy       \* SpecDeploy: the state of deploy-blue-green.sh and of docker

runVars == <<pc, script, slugArg, dryRun, wp, findResult, existingId, heroImageId,
             imageFailed, nBlocks, thrown, exitCode, calls>>
storeVars == <<posts, pages, media>>
convVars == <<convKind, convIn, convOut, convDone>>
vars == <<runVars, storeVars, convVars, deploy>>

(***************************************************************************)
(* PART 1: text.  A string is a sequence of characters; a character is a   *)
(* one-letter string, or "#<n>" for the UTF-16 code unit n outside         *)
(* printable ASCII (and for the backslash and the backquote).             *)
(***************************************************************************)

Ascii ==
  <<" ", "!", "\"", "#", "$", "%", "&", "'", "(", ")", "*", "+",
     ",", "-", ".", "/", "0", "1", "2", "3", "4", "5", "6", "7",
     "8", "9", ":", ";", "<", "=", ">", "?", "@", "A", "B", "C",
     "D", "E", "F", "G", "H", "I", "J", "K", "L", "M", "N", "O",
     "P", "Q", "R", "S", "T", "U", "V", "W", "X", "Y", "Z", "[",
     "#92", "]", "^", "_", "#96", "a", "b", "c", "d", "e", "f", "g",
     "h", "i", "j", "k", "l", "m", "n", "o", "p", "q", "r", "s",
     "t", "u", "v", "w", "x", "y", "z", "{", "|", "}", "~">>

\* String.fromCharCode(n): the code unit is n modulo 2^16.
fromCharCode(n) ==
  LET u == n % 65536
  IN  IF u >= 32 /\ u <= 126 THEN Ascii[u - 31] ELSE "#" \o ToString(u)

Digits == <<"0", "1", "2", "3", "4", "5", "6", "7", "8", "9">>
HexLetters == <<"a", "b", "c", "d", "e", "f">>
HexCapitals == <<"A", "B", "C", "D", "E", "F">>

IndexIn(seq, c) ==
  IF \E i \in 1..Len(seq) : seq[i] = c
    THEN CHOOSE i \in 1..Len(seq) : seq[i] = c
    ELSE 0

IsDigit(c) == IndexIn(Digits, c) > 0
IsHexDigit(c) ==
  IsDigit(c) \/ IndexIn(HexLetters, c) > 0 \/ IndexIn(HexCapitals, c) > 0
HexVal(c) ==
  IF IsDigit(c) THEN IndexIn(Digits, c) - 1
  ELSE IF IndexIn(HexLetters, c) > 0 THEN 9 + IndexIn(HexLetters, c)
  ELSE 9 + IndexIn(HexCapitals, c)

\* parseInt(code, radix) of a non-empty digit string.
RECURSIVE parseInt(_, _)
parseInt(ds, radix) ==
  IF ds = <<>> THEN 0
  ELSE parseInt(SubSeq(ds, 1, Len(ds) - 1), radix) * radix + HexVal(ds[Len(ds)])

\* The characters trim() and \s take for white space (those the model uses).
WhitespaceChars == {" ", "#9", "#10", "#13", "#160"}
IsWhitespace(c) == c \in WhitespaceChars

\* String.prototype.trim
RECURSIVE trimStart(_)
trimStart(s) ==
  IF s # <<>> /\ IsWhitespace(s[1]) THEN trimStart(Tail(s)) ELSE s
RECURSIVE trimEnd(_)
trimEnd(s) ==
  IF s # <<>> /\ IsWhitespace(s[Len(s)])
    THEN trimEnd(SubSeq(s, 1, Len(s) - 1)) ELSE s
trim(s) == trimEnd(trimStart(s))

StartsWithAt(s, i, pat) ==
  /\ i + Len(pat) - 1 <= Len(s)
  /\ \A k \in 1..Len(pat) : s[i + k - 1] = pat[k]

\* s.split(pat).join(rep): every occurrence, left to right, not overlapping.
RECURSIVE splitJoin(_, _, _)
splitJoin(s, pat, rep) ==
  IF s = <<>> THEN <<>>
  ELSE IF StartsWithAt(s, 1, pat)
    THEN rep \o splitJoin(SubSeq(s, Len(pat) + 1, Len(s)), pat, rep)
    ELSE <<s[1]>> \o splitJoin(Tail(s), pat, rep)

\* The table of decodeHtmlEntities, in the order Object.entries walks it.
namedEntities == <<
  [ent |-> <<"&", "n", "b", "s", "p", ";">>, code |-> 32],
  [ent |-> <<"&", "a", "m", "p", ";">>, code |-> 38],
  [ent |-> <<"&", "l", "t", ";">>, code |-> 60],
  [ent |-> <<"&", "g", "t", ";">>, code |-> 62],
  [ent |-> <<"&", "q", "u", "o", "t", ";">>, code |-> 34],
  [ent |-> <<"&", "a", "p", "o", "s", ";">>, code |-> 39],
  [ent |-> <<"&", "n", "d", "a", "s", "h", ";">>, code |-> 8211],
  [ent |-> <<"&", "m", "d", "a", "s", "h", ";">>, code |-> 8212],
  [ent |-> <<"&", "l", "s", "q", "u", "o", ";">>, code |-> 8216],
  [ent |-> <<"&", "r", "s", "q", "u", "o", ";">>, code |-> 8217],
  [ent |-> <<"&", "l", "d", "q", "u", "o", ";">>, code |-> 8220],
  [ent |-> <<"&", "r", "d", "q", "u", "o", ";">>, code |-> 8221],
  [ent |-> <<"&", "h", "e", "l", "l", "i", "p", ";">>, code |-> 8230],
  [ent |-> <<"&", "c", "o", "p", "y", ";">>, code |-> 169],
  [ent |-> <<"&", "r", "e", "g", ";">>, code |-> 174],
  [ent |-> <<"&", "t", "r", "a", "d", "e", ";">>, code |-> 8482],
  [ent |-> <<"&", "e", "u", "r", "o", ";">>, code |-> 8364],
  [ent |-> <<"&", "p", "o", "u", "n", "d", ";">>, code |-> 163],
  [ent |-> <<"&", "y", "e", "n", ";">>, code |-> 165],
  [ent |-> <<"&", "c", "e", "n", "t", ";">>, code |-> 162],
  [ent |-> <<"&", "d", "e", "g", ";">>, code |-> 176],
  [ent |-> <<"&", "p", "l", "u", "s", "m", "n", ";">>, code |-> 177],
  [ent |-> <<"&", "t", "i", "m", "e", "s", ";">>, code |-> 215],
  [ent |-> <<"&", "d", "i", "v", "i", "d", "e", ";">>, code |-> 247],
  [ent |-> <<"&", "f", "r", "a", "c", "1", "2", ";">>, code |-> 189],
  [ent |-> <<"&", "f", "r", "a", "c", "1", "4", ";">>, code |-> 188],
  [ent |-> <<"&", "f", "r", "a", "c", "3", "4", ";">>, code |-> 190] >>

RECURSIVE replaceNamed(_, _, _)
replaceNamed(s, table, k) ==
  IF k > Len(table) THEN s
  ELSE replaceNamed(splitJoin(s, table[k].ent, <<fromCharCode(table[k].code)>>),
                    table, k + 1)

\* Length of the longest run of digits (hex: hex digits) of s from position i.
RECURSIVE digitRun(_, _, _)
digitRun(s, i, hex) ==
  IF i <= Len(s) /\ (IF hex THEN IsHexDigit(s[i]) ELSE IsDigit(s[i]))
    THEN 1 + digitRun(s, i + 1, hex) ELSE 0

\* s.replace(/&#(\d+);/g, ...) for hex = FALSE, /&#x([0-9a-fA-F]+);/g for hex = TRUE.
RECURSIVE replaceNumeric(_, _)
replaceNumeric(s, hex) ==
  IF s = <<>> THEN <<>>
  ELSE
    LET prefix == IF hex THEN <<"&", "#", "x">> ELSE <<"&", "#">>
        from   == Len(prefix) + 1
        n      == digitRun(s, from, hex)
        semi   == from + n
    IN  IF /\ StartsWithAt(s, 1, prefix)
           /\ n > 0
           /\ semi <= Len(s)
           /\ s[semi] = ";"
          THEN <<fromCharCode(parseInt(SubSeq(s, from, semi - 1),
                                       IF hex THEN 16 ELSE 10))>>
               \o replaceNumeric(SubSeq(s, semi + 1, Len(s)), hex)
          ELSE <<s[1]>> \o replaceNumeric(Tail(s), hex)

decodeHtmlEntities(text) ==
  replaceNumeric(replaceNumeric(replaceNamed(text, namedEntities, 1), FALSE), TRUE)

\* Position in table of the entity that starts s; 0 when none does.
namedAt(s, table) ==
  LET hits == {k \in 1..Len(table) : StartsWithAt(s, 1, table[k].ent)}
  IN  IF hits = {} THEN 0 ELSE CHOOSE k \in hits : \A j \in hits : k <= j

\* The UTF-16 code units of code point n, as he.decode emits them.
codePointChars(n) ==
  IF n = 0 \/ n > 1114111 \/ (n >= 55296 /\ n <= 57343) THEN <<"#65533">>
  ELSE IF n < 65536 THEN <<fromCharCode(n)>>
  ELSE <<fromCharCode(55296 + ((n - 65536) \div 1024)),
         fromCharCode(56320 + ((n - 65536) % 1024))>>

\* The entity decoding node-html-parser applies in textContent (he.decode):
\* one pass from left to right, every reference decoded once.  Of the named
\* references it knows, the model has those of namedEntities.
RECURSIVE heDecodeWith(_, _)
heDecodeWith(s, table) ==
  LET \* The head of s: k is the named reference that starts it (0: none),
      \* n the number of digits after "&#" or "&#x".
      head(k, hex, n) ==
        LET from == IF hex THEN 4 ELSE 3
        IN  IF k > 0
              THEN <<fromCharCode(table[k].code)>>
                   \o heDecodeWith(SubSeq(s, Len(table[k].ent) + 1, Len(s)), table)
            ELSE IF /\ StartsWithAt(s, 1, <<"&", "#">>)
                    /\ n > 0 /\ from + n <= Len(s) /\ s[from + n] = ";"
              THEN codePointChars(parseInt(SubSeq(s, from, from + n - 1),
                                           IF hex THEN 16 ELSE 10))
                   \o heDecodeWith(SubSeq(s, from + n + 1, Len(s)), table)
            ELSE <<s[1]>> \o heDecodeWith(Tail(s), table)
      numeric(k, hex) == head(k, hex, digitRun(s, IF hex THEN 4 ELSE 3, hex))
  IN  IF s = <<>> THEN <<>>
      ELSE numeric(namedAt(s, table),
                   \/ StartsWithAt(s, 1, <<"&", "#", "x">>)
                   \/ StartsWithAt(s, 1, <<"&", "#", "X">>))
heDecode(s) == heDecodeWith(s, namedEntities)

(***************************************************************************)
(* PART 2: markup.  Parsed markup (node-html-parser's tree) is a forest: a *)
(* sequence of nodes; a node is a record                                   *)
(*   id    identity of the node object (preorder number given by parse)    *)
(*   tag   lower-case tag name, "#text" for a text node                    *)
(*   cls   the class names of the class attribute                          *)
(*   attrs the other attributes, as "name" or "name=value"                 *)
(*   href  the characters of the href attribute (<<>>: none)               *)
(*   text  the characters of a text node                                   *)
(*   kids  the child nodes                                                 *)
(***************************************************************************)

El(tag, cls, attrs, kids) ==
  [id |-> 0, tag |-> tag, cls |-> cls, attrs |-> attrs, href |-> <<>>,
   text |-> <<>>, kids |-> kids]
Tx(chars) ==
  [id |-> 0, tag |-> "#text", cls |-> {}, attrs |-> {}, href |-> <<>>,
   text |-> chars, kids |-> <<>>]
Link(href, kids) == [El("a", {}, {}, kids) EXCEPT !.href = href]

IsElement(n) == n.tag # "#text"

\* Number of nodes of a forest.
RECURSIVE Size(_)
Size(forest) ==
  IF forest = <<>> THEN 0
  ELSE 1 + Size(forest[1].kids) + Size(Tail(forest))

\* parse gives every node its own identity: preorder numbers from `next` on.
RECURSIVE Number(_, _)
Number(forest, next) ==
  IF forest = <<>> THEN <<>>
  ELSE <<[forest[1] EXCEPT !.id = next,
                           !.kids = Number(forest[1].kids, next + 1)]>>
       \o Number(Tail(forest), next + 1 + Size(forest[1].kids))

\* All nodes below the root, in document order.
RECURSIVE Flatten(_)
Flatten(forest) ==
  IF forest = <<>> THEN <<>>
  ELSE <<forest[1]>> \o Flatten(forest[1].kids) \o Flatten(Tail(forest))

\* Concatenated raw text of a forest.
RECURSIVE rawText(_)
rawText(forest) ==
  IF forest = <<>> THEN <<>>
  ELSE (IF IsElement(forest[1]) THEN rawText(forest[1].kids) ELSE forest[1].text)
       \o rawText(Tail(forest))

\* el.remove() for every node whose id is in ids.
RECURSIVE RemoveIds(_, _)
RemoveIds(forest, ids) ==
  IF forest = <<>> THEN <<>>
  ELSE (IF forest[1].id \in ids THEN <<>>
        ELSE <<[forest[1] EXCEPT !.kids = RemoveIds(forest[1].kids, ids)]>>)
       \o RemoveIds(Tail(forest), ids)

\* wrapper.replaceWith(...wrapper.childNodes) for the node with this id.
RECURSIVE Unwrap(_, _)
Unwrap(forest, id) ==
  IF forest = <<>> THEN <<>>
  ELSE (IF forest[1].id = id THEN forest[1].kids
        ELSE <<[forest[1] EXCEPT !.kids = Unwrap(forest[1].kids, id)]>>)
       \o Unwrap(Tail(forest), id)

\* The node with this id, if it is (still) in the forest.
HasNode(forest, id) == \E i \in 1..Len(Flatten(forest)) : Flatten(forest)[i].id = id
GetNode(forest, id) ==
  LET flat == Flatten(forest)
  IN  flat[CHOOSE i \in 1..Len(flat) : flat[i].id = id]

\* Id of the parent element of the node with this id; 0 for the root.
ParentId(forest, id) ==
  LET flat == Flatten(forest)
  IN  IF \E i \in 1..Len(flat) :
           \E k \in 1..Len(flat[i].kids) : flat[i].kids[k].id = id
        THEN flat[CHOOSE i \in 1..Len(flat) :
                    \E k \in 1..Len(flat[i].kids) : flat[i].kids[k].id = id].id
        ELSE 0

\* Ids of the elements that satisfy Sel, in document order (querySelectorAll).
querySelectorAll(forest, Sel(_)) ==
  LET flat == SelectSeq(Flatten(forest), LAMBDA n : IsElement(n) /\ Sel(n))
  IN  [i \in 1..Len(flat) |-> flat[i].id]

Range(seq) == {seq[i] : i \in 1..Len(seq)}
\* The elements of a finite set, in some order (for loops whose order has no effect).
RECURSIVE SetToSeq(_)
SetToSeq(S) ==
  IF S = {} THEN <<>>
  ELSE LET x == CHOOSE y \in S : TRUE IN <<x>> \o SetToSeq(S \ {x})

\* parse(html): the markup's tree with fresh node identities.
parse(forest) == Number(forest, 1)

\* Whether serialised markup is empty after trim(): only whitespace text.
IsBlankHtml(forest) ==
  \A i \in 1..Len(forest) :
    ~IsElement(forest[i]) /\ trim(forest[i].text) = <<>>

\* String.prototype.toLowerCase on one character (ASCII letters).
toLowerCase(c) ==
  LET k == IndexIn(Ascii, c)
  IN  IF k >= 34 /\ k <= 59 THEN Ascii[k + 32] ELSE c
lower(s) == [i \in 1..Len(s) |-> toLowerCase(s[i])]

\* First position >= from where pat occurs in s; 0 when there is none.
indexOf(s, pat, from) ==
  IF \E i \in from..Len(s) : StartsWithAt(s, i, pat)
    THEN CHOOSE i \in from..Len(s) :
           /\ StartsWithAt(s, i, pat)
           /\ \A j \in from..(i - 1) : ~StartsWithAt(s, j, pat)
    ELSE 0
includes(s, pat) == indexOf(s, pat, 1) > 0

\* Length of the longest run of characters of s from position i that are in
\* (inSet = TRUE) or not in (inSet = FALSE) the set cs.
RECURSIVE runLength(_, _, _, _)
runLength(s, i, cs, inSet) ==
  IF i <= Len(s) /\ ((s[i] \in cs) = inSet)
    THEN 1 + runLength(s, i + 1, cs, inSet) ELSE 0

\* el.textContent: node-html-parser decodes the entities of the raw text.
textContent(n) == heDecode(IF IsElement(n) THEN rawText(n.kids) ELSE n.text)

(***************************************************************************)
(* PART 2a: the page converter (migrate-wordpress-page.ts).                *)
(***************************************************************************)

NoBlock == [blockType |-> "null"]

\* A match of /<label>\s*([^<stops>]+)/i at position i of text: the capture as
\* [ok, from, to].  \s* is greedy and gives characters back when the capture
\* would otherwise be empty.
captureAfterLabel(text, i, label, stops) ==
  LET after == i + Len(label)
      ws    == runLength(text, after, WhitespaceChars, TRUE)
      body  == runLength(text, after + ws, stops, FALSE)
  IN  IF ~StartsWithAt(lower(text), i, label) THEN [ok |-> FALSE, from |-> 0, to |-> 0]
      ELSE IF body > 0
        THEN [ok |-> TRUE, from |-> after + ws, to |-> after + ws + body - 1]
      ELSE IF ws > 0 /\ (WhitespaceChars \cap stops = {})
        THEN [ok |-> TRUE, from |-> after + ws - 1, to |-> after + ws - 1]
      ELSE [ok |-> FALSE, from |-> 0, to |-> 0]

\* The leftmost match of /<label>\s*([^<stops>]+)/i in text.
matchLabel(text, label, stops) ==
  LET captureAt(hits) ==
        IF hits = {} THEN [ok |-> FALSE, from |-> 0, to |-> 0]
        ELSE captureAfterLabel(text, CHOOSE i \in hits : \A j \in hits : i <= j,
                               label, stops)
  IN  captureAt({i \in 1..Len(text) : captureAfterLabel(text, i, label, stops).ok})

AuteurLabel == <<"a", "u", "t", "e", "u", "r", ":">>
ReviewerLabel == <<"r", "e", "v", "i", "e", "w", "e", "r", ":">>
LineTerminators == {"#10", "#13", "#8232", "#8233"}

parseAuteurReviewer(text) ==
  LET \* (?:,\s*(.+))? right after the reviewer capture, the comma at position
      \* `comma`: \s* also takes line ends, (.+) does not, and \s* gives
      \* characters back to let (.+) match.
      titelAfter(comma) ==
        LET ws   == runLength(text, comma + 1, WhitespaceChars, TRUE)
            rest == runLength(text, comma + 1 + ws, LineTerminators, FALSE)
        IN  [has   |-> /\ comma <= Len(text) /\ text[comma] = ","
                       /\ (rest > 0
                           \/ \E j \in 1..ws : text[comma + j] \notin LineTerminators),
             titel |-> IF rest > 0 THEN SubSeq(text, comma + 1 + ws, comma + ws + rest)
                       ELSE <<>>]
      block(auteurMatch, reviewerMatch, titelMatch) ==
        IF ~auteurMatch.ok THEN NoBlock
        ELSE [blockType     |-> "auteurReviewer",
              auteur        |-> trim(SubSeq(text, auteurMatch.from, auteurMatch.to)),
              hasReviewer   |-> reviewerMatch.ok,
              reviewer      |-> IF reviewerMatch.ok
                                  THEN trim(SubSeq(text, reviewerMatch.from,
                                                   reviewerMatch.to))
                                  ELSE <<>>,
              hasTitel      |-> reviewerMatch.ok /\ titelMatch.has,
              reviewerTitel |-> IF reviewerMatch.ok /\ titelMatch.has
                                  THEN trim(titelMatch.titel) ELSE <<>>]
      matched(auteurMatch, reviewerMatch) ==
        block(auteurMatch, reviewerMatch, titelAfter(reviewerMatch.to + 1))
  IN  matched(matchLabel(text, AuteurLabel, {"#8211", "-"}),
              matchLabel(text, ReviewerLabel, {","}))

\* What `[class*="..."]` selectors find in the class names the model uses:
\* the selector fragments each class name contains.
ClassFragments(c) ==
  CASE c \in {"hs-cta-embed", "hs-cta-wrapper"} -> {"hs-cta"}
    [] c \in {"wp-block-kadence-rowlayout", "wp-block-kadence-column",
              "wp-block-kadence-advancedheading", "wp-block-kadence-spacer",
              "wp-block-kadence-tableofcontents",
              "wp-block-kadence-advancedgallery"} -> {"wp-block-", "kadence"}
    [] c \in {"wp-block-group", "wp-block-image"} -> {"wp-block-"}
    [] c \in {"kb-row-layout-wrap", "kb-table-of-content-nav",
              "kb-table-of-content-wrap", "kb-svg-icon-wrap"} -> {"kb-"}
    [] c \in {"kt-inside-inner-col", "kt-svg-icon-list-single"} -> {"kt-"}
    [] c \in {"wprm-recipe-jump-to", "wprm-recipe-jump"} -> {"wprm-", "wprm-recipe-jump"}
    [] c \in {"wprm-recipe", "wprm-recipe-print", "wprm-user-rating",
              "wprm-screen-reader-text"} -> {"wprm-"}
    [] c \in {"slickstream-button"} -> {"slickstream"}
    [] c \in {"hubspot-form"} -> {"hubspot"}
    [] OTHER -> {}
ClassContains(n, fragment) == \E c \in n.cls : fragment \in ClassFragments(c)

HasAttr(n, name) == \E a \in n.attrs : a.name = name
\* el.removeAttribute(name) / el.setAttribute(name, value) on the nodes in ids.
RECURSIVE removeAttribute(_, _, _)
removeAttribute(forest, ids, name) ==
  IF forest = <<>> THEN <<>>
  ELSE LET n == forest[1]
           m == IF n.id \notin ids THEN n
                ELSE IF name = "class" THEN [n EXCEPT !.cls = {}]
                ELSE [n EXCEPT !.attrs = {a \in @ : a.name # name}]
       IN  <<[m EXCEPT !.kids = removeAttribute(n.kids, ids, name)]>>
           \o removeAttribute(Tail(forest), ids, name)
RECURSIVE setAttribute(_, _, _, _)
setAttribute(forest, id, name, value) ==
  IF forest = <<>> THEN <<>>
  ELSE LET n == forest[1]
           m == IF n.id # id THEN n
                ELSE [n EXCEPT !.attrs = {a \in @ : a.name # name}
                                         \cup {[name |-> name, value |-> value]}]
       IN  <<[m EXCEPT !.kids = setAttribute(n.kids, id, name, value)]>>
           \o setAttribute(Tail(forest), id, name, value)

\* root.querySelectorAll(sel).forEach(el => el.remove())
removeAll(forest, Sel(_)) == RemoveIds(forest, Range(querySelectorAll(forest, Sel)))
\* querySelectorAll(sel).forEach(el => el.removeAttribute(name))
removeAttributeAll(forest, Sel(_), name) ==
  removeAttribute(forest, Range(querySelectorAll(forest, Sel)), name)

\* A node of the Lexical tree.
Lex(type, tag, value, children) ==
  [type |-> type, tag |-> tag, text |-> <<>>, value |-> value,
   headerState |-> 0, children |-> children]
LexText(text) ==
  [type |-> "text", tag |-> "", text |-> text, value |-> 0,
   headerState |-> 0, children |-> <<>>]

textToParagraph(text) == Lex("paragraph", "", 0, <<LexText(trim(text))>>)

HeadingTags == {"h1", "h2", "h3", "h4", "h5", "h6"}
ContainerTags == {"div", "span", "section", "article"}

\* Variant of listItemsOf that counts the li children without text as well.
listItemsCountingAll(el) ==
  LET lis == SelectSeq(el.kids, LAMBDA c : IsElement(c) /\ c.tag = "li")
  IN  SelectSeq([i \in 1..Len(lis) |->
                   Lex("listitem", "", i,
                       <<Lex("paragraph", "", 0, <<LexText(trim(textContent(lis[i])))>>)>>)],
                LAMBDA item : item.children[1].children[1].text # <<>>)

\* The list branch of elementToLexicalNodes: the direct li children with text.
listItemsOf(el) ==
  LET lis == SelectSeq(el.kids, LAMBDA c : IsElement(c) /\ c.tag = "li"
                                           /\ trim(textContent(c)) # <<>>)
  IN  [i \in 1..Len(lis) |->
         Lex("listitem", "", i,
             <<Lex("paragraph", "", 0, <<LexText(trim(textContent(lis[i])))>>)>>)]

RECURSIVE childNodesToLexical(_)
elementToLexicalNodes(el) ==
  LET listOrNone(items) ==
        IF items # <<>> THEN <<Lex("list", el.tag, 0, items)>> ELSE <<>>
      \* text is el.textContent.trim(), which every branch but the list's
      \* reads first.
      withText(text) ==
        IF el.tag \in HeadingTags
          THEN IF text # <<>> THEN <<Lex("heading", el.tag, 0, <<LexText(text)>>)>>
               ELSE <<>>
        ELSE IF el.tag = "p"
          THEN IF text # <<>> THEN <<textToParagraph(text)>> ELSE <<>>
        ELSE IF el.tag \in {"ul", "ol"} THEN listOrNone(listItemsOf(el))
        ELSE IF el.tag \in ContainerTags THEN childNodesToLexical(el.kids)
        ELSE IF text # <<>> THEN <<textToParagraph(text)>> ELSE <<>>
  IN  withText(trim(textContent(el)))
\* The loop over childNodes (of a container, and of the root in htmlToLexical).
childNodesToLexical(nodes) ==
  IF nodes = <<>> THEN <<>>
  ELSE (IF ~IsElement(nodes[1])
          THEN IF trim(nodes[1].text) # <<>>
                 THEN <<textToParagraph(nodes[1].text)>> ELSE <<>>
          ELSE elementToLexicalNodes(nodes[1]))
       \o childNodesToLexical(Tail(nodes))

\* Variant of childrenOr without the fallback.
childrenAsIs(children, fallback) == children

\* children.length > 0 ? children : [fallback]
childrenOr(children, fallback) ==
  IF Len(children) = 0 THEN <<fallback>> ELSE children

\* htmlToLexical of the page script: the children of the root it returns.
htmlToLexical_page(html) ==
  childrenOr(childNodesToLexical(parse(html)), textToParagraph(<<>>))

HasClass(n, c) == c \in n.cls
FirstOrNone(forest, Sel(_)) ==
  LET found == SelectSeq(Flatten(forest), LAMBDA n : IsElement(n) /\ Sel(n))
  IN  IF found = <<>> THEN <<>> ELSE <<found[1]>>

\* The forEach of parseTocItems over the li elements lis[k..]: items so far.
RECURSIVE tocItemsFrom(_, _, _)
tocItemsFrom(lis, k, items) ==
  LET \* text is the trimmed text of the li's link (of the li when it has
      \* none), href the link's href.
      add(text, href) ==
        IF text = <<>> \/ text \in {items[i].label : i \in 1..Len(items)} THEN items
        ELSE Append(items, [label     |-> text,
                            hasAnchor |-> href # <<>> /\ href[1] = "#",
                            anchor    |-> IF href # <<>> /\ href[1] = "#"
                                            THEN Tail(href) ELSE <<>>])
      item(li, anchor) ==
        add(trim(textContent(IF anchor # <<>> THEN anchor[1] ELSE li)),
            IF anchor # <<>> THEN anchor[1].href ELSE <<>>)
  IN  IF k > Len(lis) THEN items
      ELSE tocItemsFrom(lis, k + 1,
             item(lis[k], FirstOrNone(lis[k].kids, LAMBDA n : n.tag = "a")))

\* Variant of parseTocItems that keeps an item for every li with a label.
parseTocItemsKeepingRepeats(tocElement) ==
  LET itemsOf(lis) ==
        SelectSeq([i \in 1..Len(lis) |-> tocItemsFrom(<<lis[i]>>, 1, <<>>)],
                  LAMBDA one : one # <<>>)
      blockOf(ones) ==
        IF Len(ones) = 0 THEN NoBlock
        ELSE [blockType |-> "inhoudsopgave", titel |-> "Inhoudsopgave",
              items |-> [i \in 1..Len(ones) |-> ones[i][1]]]
  IN  blockOf(itemsOf(SelectSeq(Flatten(tocElement.kids),
                                LAMBDA n : IsElement(n) /\ n.tag = "li")))

parseTocItems(tocElement) ==
  LET blockOf(items) ==
        IF Len(items) = 0 THEN NoBlock
        ELSE [blockType |-> "inhoudsopgave", titel |-> "Inhoudsopgave", items |-> items]
  IN  blockOf(tocItemsFrom(SelectSeq(Flatten(tocElement.kids),
                                     LAMBDA n : IsElement(n) /\ n.tag = "li"),
                           1, <<>>))

\* src and part are not fields of the block.  src records the id of the layout
\* row the block was built from (0: the whole document); part records the list
\* the block was pushed to ("intro": introBlocks, "content": contentBlocks).
createContentBlock(html) ==
  [blockType |-> "content", children |-> htmlToLexical_page(html), src |-> 0,
   part |-> "content"]

\* cleanHtml: the cleaned markup (what root.toString() serialises).
cleanHtml(html) ==
  LET IsStyle(n) == n.tag = "style"
      IsSpacer(n) == HasClass(n, "wp-block-kadence-spacer")
      IsCta(n) == HasClass(n, "hs-cta-embed") \/ ClassContains(n, "hs-cta")
  IN  removeAttributeAll(
        removeAttributeAll(
          removeAll(removeAll(removeAll(parse(html), IsStyle), IsSpacer), IsCta),
          LAMBDA n : n.cls # {}, "class"),
        LAMBDA n : HasAttr(n, "style"), "style")

IsAdvancedHeading(n) == HasClass(n, "wp-block-kadence-advancedheading")
IsTocElement(n) ==
  \/ HasClass(n, "wp-block-kadence-tableofcontents")
  \/ (n.tag = "nav" /\ HasClass(n, "kb-table-of-content-nav"))
  \/ HasClass(n, "kb-table-of-content-wrap")
IsRow(n) ==
  HasClass(n, "wp-block-kadence-rowlayout") \/ HasClass(n, "kb-row-layout-wrap")
IsMarked(n) == [name |-> "data-remove", value |-> "true"] \in n.attrs

\* One element of the loops of step 1: st = [root, auteur] after the element
\* whose text was parsed to blk; `mark` is the id of the node it marks for
\* removal.
auteurFrom(st, mark, blk) ==
  [root   |-> IF blk.blockType # "null"
                THEN setAttribute(st.root, mark, "data-remove", "true")
                ELSE st.root,
   auteur |-> blk]

\* Step 1 of parseToPayloadBlocks, the loop over the advanced headings ids[k..].
RECURSIVE scanHeadings(_, _, _)
scanHeadings(ids, k, st) ==
  LET step(text) ==
        IF ~includes(lower(text), AuteurLabel) THEN st
        ELSE auteurFrom(st, ids[k], parseAuteurReviewer(text))
  IN  IF k > Len(ids) THEN st
      ELSE scanHeadings(ids, k + 1, step(textContent(GetNode(st.root, ids[k]))))

\* The loop over the sub elements ids[k..].  The parent of a top-level sub is
\* the root, which querySelectorAll never returns: marking it removes nothing.
RECURSIVE scanSubs(_, _, _)
scanSubs(ids, k, st) ==
  LET step(text) ==
        IF ~(includes(lower(text), AuteurLabel) /\ st.auteur.blockType = "null") THEN st
        ELSE auteurFrom(st, ParentId(st.root, ids[k]), parseAuteurReviewer(text))
  IN  IF k > Len(ids) THEN st
      ELSE scanSubs(ids, k + 1, step(textContent(GetNode(st.root, ids[k]))))

\* Step 2, the loop over the table-of-contents elements ids[k..]; st = [root, toc].
RECURSIVE scanTocs(_, _, _)
scanTocs(ids, k, st) ==
  IF k > Len(ids) THEN st
  ELSE scanTocs(ids, k + 1,
         [root |-> setAttribute(st.root, ids[k], "data-remove", "true"),
          toc  |-> IF st.toc.blockType = "null"
                     THEN parseTocItems(GetNode(st.root, ids[k]))
                     ELSE st.toc])

promotionalPatterns ==
  { <<"r", "e", "c", "e", "p", "t", " ", "i", "d", "e", "#235", "e", "n">>,
    <<"n", "i", "e", "u", "w", "s", "b", "r", "i", "e", "f">>,
    <<"s", "t", "e", "r", "r", "e", "n", " ", "g", "e", "v", "e", "n">> }
IsPromotional(row) ==
  \E pat \in promotionalPatterns : includes(lower(textContent(row)), pat)

\* rowHtml of one layout row: the inner markup of its columns, else its own.
RECURSIVE columnsHtml(_)
columnsHtml(cols) ==
  IF cols = <<>> THEN <<>>
  ELSE LET inner == FirstOrNone(cols[1].kids, LAMBDA n : HasClass(n, "kt-inside-inner-col"))
       IN  (IF inner # <<>> /\ inner[1].kids # <<>> THEN inner[1].kids ELSE cols[1].kids)
           \o columnsHtml(Tail(cols))
rowHtmlOf(row) ==
  LET columns == SelectSeq(Flatten(row.kids),
                   LAMBDA n : IsElement(n) /\ HasClass(n, "wp-block-kadence-column"))
      rowHtml == columnsHtml(columns)
  IN  IF IsBlankHtml(rowHtml) THEN row.kids ELSE rowHtml

HasH2(cleaned) == SelectSeq(Flatten(cleaned), LAMBDA n : n.tag = "h2") # <<>>

\* One row of step 4: st = [intro, content, isFirstContentRow] after the row
\* with this id, whose cleaned markup is `cleaned`.
addRowBlock(st, cleaned, id) ==
  LET place(block) ==
        IF IsBlankHtml(cleaned) THEN st
        ELSE IF st.isFirstContentRow /\ ~HasH2(cleaned)
          THEN [st EXCEPT !.intro = Append(@, [block EXCEPT !.part = "intro"])]
        ELSE [st EXCEPT !.isFirstContentRow = FALSE, !.content = Append(@, block)]
  IN  place([createContentBlock(cleaned) EXCEPT !.src = id])

\* Step 4, the forEach over the rows ids[k..] of root.
RECURSIVE processRows(_, _, _, _)
processRows(root, ids, k, st) ==
  IF k > Len(ids) THEN st
  ELSE processRows(root, ids, k + 1,
         addRowBlock(st, cleanHtml(rowHtmlOf(GetNode(root, ids[k]))), ids[k]))

\* Step 4 when the document has no layout row: the whole document is one block.
fallbackBlocks(cleaned) ==
  [intro |-> <<>>, isFirstContentRow |-> TRUE,
   content |-> IF ~IsBlankHtml(cleaned) THEN <<createContentBlock(cleaned)>> ELSE <<>>]

\* Variant of assembleBlocks that puts the table of contents first.
assembleTocFirst(introBlocks, auteurBlock, tocBlock, contentBlocks) ==
  (IF tocBlock.blockType # "null" THEN <<tocBlock>> ELSE <<>>)
  \o introBlocks
  \o (IF auteurBlock.blockType # "null" THEN <<auteurBlock>> ELSE <<>>)
  \o contentBlocks

\* Step 5: intro -> auteur -> toc -> content.
assembleBlocks(introBlocks, auteurBlock, tocBlock, contentBlocks) ==
  introBlocks
  \o (IF auteurBlock.blockType # "null" THEN <<auteurBlock>> ELSE <<>>)
  \o (IF tocBlock.blockType # "null" THEN <<tocBlock>> ELSE <<>>)
  \o contentBlocks

parseToPayloadBlocks(html) ==
  LET \* Step 1 on the parsed tree: [root, auteur].
      headings(root) ==
        scanHeadings(querySelectorAll(root, IsAdvancedHeading), 1,
                     [root |-> root, auteur |-> NoBlock])
      subs(s) == scanSubs(querySelectorAll(s.root, LAMBDA n : n.tag = "sub"), 1, s)
      \* Step 2 and the removal of the marked elements: [root, auteur, toc].
      tocs(s) ==
        [scanTocs(querySelectorAll(s.root, IsTocElement), 1,
                  [root |-> s.root, toc |-> NoBlock])
           EXCEPT !.root = removeAll(@, IsMarked)] @@ [auteur |-> s.auteur]
      \* Steps 3 and 4 on the tree the extraction left.
      rowBlocks(root, rows) ==
        IF Len(rows) = 0 THEN fallbackBlocks(cleanHtml(root))
        ELSE processRows(root, rows, 1,
               [intro |-> <<>>, content |-> <<>>, isFirstContentRow |-> TRUE])
      blocksOf(root) == rowBlocks(root, querySelectorAll(root, IsRow))
      split(s) ==
        [auteur |-> s.auteur, toc |-> s.toc,
         rows   |-> blocksOf(removeAll(s.root,
                                       LAMBDA n : IsRow(n) /\ IsPromotional(n)))]
      \* Step 5.
      ordered(b) == assembleBlocks(b.rows.intro, b.auteur, b.toc, b.rows.content)
  IN  ordered(split(tocs(subs(headings(parse(html))))))

(***************************************************************************)
(* PART 2b: the article converter (migrate-from-wordpress.ts).             *)
(* The markup given to cleanWordPressHtml is what parseHtml makes of it:   *)
(* well-formed, and without comments (the wp: comments are cut by the      *)
(* first replace, every other one by the parser option comment: false).    *)
(***************************************************************************)

\* What `[id*="..."]` and id.includes(...) find in the id values the model uses.
IdFragments(v) ==
  CASE v \in {"wprm-recipe-1"} -> {"wprm-", "recipe-"}
    [] v \in {"kb-section-1"} -> {"kb-"}
    [] v \in {"kt-layout-1"} -> {"kt-"}
    [] v \in {"kadence-1"} -> {"kadence"}
    [] v \in {"hubspot-1"} -> {"hubspot"}
    [] OTHER -> {}
AttrValue(n, name) ==
  IF HasAttr(n, name) THEN (CHOOSE a \in n.attrs : a.name = name).value ELSE ""
IdContains(n, fragment) == fragment \in IdFragments(AttrValue(n, "id"))

\* attr.startsWith('data-'), for the attribute names the model uses.
DataAttrNames == {"data-id", "data-align", "data-remove"}
invalidEventAttrs == <<"onclick", "onmouseenter", "onmouseleave", "onfocus",
                       "onblur", "onkeypress", "onerror", "onload">>

\* forEach over names[k..]: removeAttribute(name) on every node in ids.
RECURSIVE removeAttributes(_, _, _, _)
removeAttributes(forest, ids, names, k) ==
  IF k > Len(names) THEN forest
  ELSE removeAttributes(removeAttribute(forest, ids, names[k]), ids, names, k + 1)

IsWrapper(n) ==
  \/ ClassContains(n, "wp-block-") \/ ClassContains(n, "kb-")
  \/ ClassContains(n, "kt-") \/ ClassContains(n, "kadence")
  \/ ClassContains(n, "wprm-")

\* Step 11, the forEach over the wrappers ids[k..].
RECURSIVE unwrapWrappers(_, _, _)
unwrapWrappers(forest, ids, k) ==
  IF k > Len(ids) THEN forest
  ELSE
    LET wrapper == GetNode(forest, ids[k])
    IN  IF wrapper.tag \in {"div", "section", "figure"}
          THEN IF Len(wrapper.kids) > 0
                 THEN unwrapWrappers(Unwrap(forest, ids[k]), ids, k + 1)
                 ELSE unwrapWrappers(RemoveIds(forest, {ids[k]}), ids, k + 1)
          ELSE unwrapWrappers(
                 removeAttribute(removeAttribute(forest, {ids[k]}, "class"),
                                 {ids[k]}, "style"),
                 ids, k + 1)

\* Step 15, the forEach over the p elements ids[k..].
RECURSIVE removeEmptyParagraphs(_, _, _)
removeEmptyParagraphs(forest, ids, k) ==
  IF k > Len(ids) THEN forest
  ELSE IF ~HasNode(forest, ids[k]) THEN removeEmptyParagraphs(forest, ids, k + 1)
  ELSE
    LET p == GetNode(forest, ids[k])
    IN  IF /\ trim(textContent(p)) = <<>>
           /\ FirstOrNone(p.kids, LAMBDA n : n.tag \in {"img", "a", "mark"}) = <<>>
          THEN removeEmptyParagraphs(RemoveIds(forest, {ids[k]}), ids, k + 1)
          ELSE removeEmptyParagraphs(forest, ids, k + 1)

\* Step 15, the forEach over the div and span elements ids[k..], in document
\* order: each is judged by its inner markup at the moment it is visited.
RECURSIVE removeEmptyContainers(_, _, _)
removeEmptyContainers(forest, ids, k) ==
  IF k > Len(ids) THEN forest
  ELSE IF ~HasNode(forest, ids[k]) THEN removeEmptyContainers(forest, ids, k + 1)
  ELSE IF IsBlankHtml(GetNode(forest, ids[k]).kids)
    THEN removeEmptyContainers(RemoveIds(forest, {ids[k]}), ids, k + 1)
    ELSE removeEmptyContainers(forest, ids, k + 1)

removeAttributesAll(forest, names) ==
  removeAttributes(forest, Range(querySelectorAll(forest, LAMBDA n : TRUE)), names, 1)
unwrapAll(forest) == unwrapWrappers(forest, querySelectorAll(forest, IsWrapper), 1)
removeEmptyParagraphsAll(forest) ==
  removeEmptyParagraphs(forest, querySelectorAll(forest, LAMBDA n : n.tag = "p"), 1)
removeEmptyContainersAll(forest) ==
  removeEmptyContainers(forest,
    querySelectorAll(forest, LAMBDA n : n.tag \in {"div", "span"}), 1)

\* Steps 1 to 9 of cleanWordPressHtml, each removal with its selector.
removeUnwanted(root) ==
  LET IsStyle(n) == n.tag = "style"
      IsScript(n) == n.tag = "script"
      IsHubspotCta(n) == HasClass(n, "hs-cta-embed") \/ ClassContains(n, "hs-cta")
      IsWprmInteractive(n) ==
        \/ n.cls \cap {"wprm-recipe-user-rating", "wprm-user-rating",
                       "wprm-recipe-rating", "wprm-recipe-call-to-action",
                       "wprm-call-to-action", "wprm-recipe-print", "wprm-recipe-pin",
                       "wprm-cta-rating-modal"} # {}
        \/ ClassContains(n, "wprm-recipe-jump")
      IsSlickstream(n) ==
        ClassContains(n, "slickstream") \/ HasClass(n, "wprm-recipe-slickstream")
      IsScreenReaderOnly(n) ==
        n.cls \cap {"sr-only", "screen-reader-text", "wprm-screen-reader-text"} # {}
      IsHubspotTracking(n) == IdContains(n, "hubspot") \/ ClassContains(n, "hubspot")
      IsGallery(n) == HasClass(n, "wp-block-kadence-advancedgallery")
      IsIconWrap(n) == n.cls \cap {"kb-svg-icon-wrap", "kt-svg-icon-list-single"} # {}
      IsBareSvg(n) == n.tag = "svg" /\ ~HasAttr(n, "width") /\ ~HasAttr(n, "height")
  IN  removeAll(removeAll(removeAll(removeAll(removeAll(removeAll(removeAll(removeAll(
        removeAll(removeAll(root, IsStyle), IsScript), IsHubspotCta), IsWprmInteractive),
        IsSlickstream), IsScreenReaderOnly), IsHubspotTracking), IsGallery), IsIconWrap),
        IsBareSvg)

\* Steps 12 to 14.
stripAttributes(root) ==
  LET HasWordPressId(n) ==
        \E f \in {"wprm-", "recipe-", "kb-", "kt-", "kadence"} : IdContains(n, f)
  IN  removeAttributeAll(
        removeAttributesAll(
          removeAttributeAll(
            removeAttributeAll(root, LAMBDA n : n.cls # {}, "class"),
            LAMBDA n : HasAttr(n, "style"), "style"),
          SetToSeq(DataAttrNames)),
        HasWordPressId, "id")

\* cleanWordPressHtml up to root.toString(): the cleaned tree.
cleanWordPressTree(html) ==
  removeEmptyContainersAll(removeEmptyParagraphsAll(stripAttributes(
    unwrapAll(removeAttributesAll(removeUnwanted(parse(html)), invalidEventAttrs)))))

\* Serialised markup is a sequence of tokens: an opening tag, a closing tag or
\* one character of text.  (Attributes stay out: every pattern of the
\* converter skips them with [^>]*.)
OpenTag(tag) == [k |-> "open", tag |-> tag, c |-> ""]
CloseTag(tag) == [k |-> "close", tag |-> tag, c |-> ""]
Char(c) == [k |-> "char", tag |-> "", c |-> c]
Chars(text) == [i \in 1..Len(text) |-> Char(text[i])]
VoidTags == {"br", "hr", "img", "input", "meta", "link"}

\* root.toString()
RECURSIVE toString(_)
toString(forest) ==
  IF forest = <<>> THEN <<>>
  ELSE (IF ~IsElement(forest[1]) THEN Chars(forest[1].text)
        ELSE IF forest[1].tag \in VoidTags THEN <<OpenTag(forest[1].tag)>>
        ELSE <<OpenTag(forest[1].tag)>> \o toString(forest[1].kids)
             \o <<CloseTag(forest[1].tag)>>)
       \o toString(Tail(forest))

IsSpaceToken(t) == t.k = "char" /\ IsWhitespace(t.c)
RECURSIVE trimStartHtml(_)
trimStartHtml(str) ==
  IF str # <<>> /\ IsSpaceToken(str[1]) THEN trimStartHtml(Tail(str)) ELSE str
RECURSIVE trimEndHtml(_)
trimEndHtml(str) ==
  IF str # <<>> /\ IsSpaceToken(str[Len(str)])
    THEN trimEndHtml(SubSeq(str, 1, Len(str) - 1)) ELSE str
\* trim() of serialised markup
trimHtml(str) == trimEndHtml(trimStartHtml(str))

\* str.replace(/<[^>]+>/g, ''): the text with every tag cut out.
stripTags(str) ==
  LET cs == SelectSeq(str, LAMBDA t : t.k = "char")
  IN  [i \in 1..Len(cs) |-> cs[i].c]

cleanWordPressHtml(html) == trimHtml(toString(cleanWordPressTree(html)))

\* First position >= from of a token of kind k whose tag is in tags; 0: none.
indexOfTag(str, k, tags, from) ==
  IF \E i \in from..Len(str) : str[i].k = k /\ str[i].tag \in tags
    THEN CHOOSE i \in from..Len(str) :
           /\ str[i].k = k /\ str[i].tag \in tags
           /\ \A j \in from..(i - 1) : ~(str[j].k = k /\ str[j].tag \in tags)
    ELSE 0

\* The leftmost match of /<open...>[\s\S]*?<\/close>/ in str from position
\* `from`, for an opening tag in opens whose closing tag (the one of its own
\* tag when closes is empty, else any of closes) follows: [from, to], or from = 0.
RECURSIVE matchRegion(_, _, _, _)
matchRegion(str, opens, closes, from) ==
  LET closeAfter(i) ==
        IF i = 0 THEN 0
        ELSE indexOfTag(str, "close", IF closes = {} THEN {str[i].tag} ELSE closes,
                        i + 1)
      between(i, j) ==
        IF i = 0 THEN [from |-> 0, to |-> 0]
        ELSE IF j = 0 THEN matchRegion(str, opens, closes, i + 1)
        ELSE [from |-> i, to |-> j]
      at(i) == between(i, closeAfter(i))
  IN  at(indexOfTag(str, "open", opens, from))

\* str.match(/<open...>[\s\S]*?<\/close>/gi): all matches, left to right.
RECURSIVE matchAll(_, _, _)
matchAll(str, opens, closes) ==
  LET matchesFrom(m) ==
        IF m.from = 0 THEN <<>>
        ELSE <<SubSeq(str, m.from, m.to)>>
             \o matchAll(SubSeq(str, m.to + 1, Len(str)), opens, closes)
  IN  matchesFrom(matchRegion(str, opens, closes, 1))

\* decodeHtmlEntities(html.replace(/<[^>]+>/g, '').trim())
plainText(str) == decodeHtmlEntities(trim(stripTags(str)))

\* The cells of one row of parseHtmlTable.
tableCells(rowHtml) ==
  LET cellNode(isHeader, cellContent) ==
        [Lex("tablecell", "", 0,
             <<Lex("paragraph", "", 0,
                   IF cellContent # <<>> THEN <<LexText(cellContent)>> ELSE <<>>)>>)
           EXCEPT !.headerState = IF isHeader THEN 1 ELSE 0]
      tableCell(cellHtml) ==
        cellNode(cellHtml[1].tag \in {"th", "thead"}, plainText(cellHtml))
      cellsOf(cellMatches) ==
        [i \in 1..Len(cellMatches) |-> tableCell(cellMatches[i])]
  IN  cellsOf(matchAll(rowHtml, {"th", "td", "thead"}, {"th", "td"}))

RECURSIVE tableRows(_)
tableRows(rowMatches) ==
  LET rowOrNone(cells) ==
        IF Len(cells) > 0 THEN <<Lex("tablerow", "", 0, cells)>> ELSE <<>>
  IN  IF rowMatches = <<>> THEN <<>>
      ELSE rowOrNone(tableCells(rowMatches[1])) \o tableRows(Tail(rowMatches))

\* parseHtmlTable: the table node as a sequence of one node, <<>> for null.
parseHtmlTable(tableHtml) ==
  LET tableOrNone(rows) ==
        IF Len(rows) = 0 THEN <<>> ELSE <<Lex("table", "", 0, rows)>>
  IN  tableOrNone(tableRows(matchAll(tableHtml, {"tr"}, {"tr"})))

\* parseHtml of serialised markup, from token i on, below the open elements
\* `stack`: [nodes, next].  An element left open is closed by the closing tag
\* of an element around it, or by the end; a stray closing tag is dropped.
RECURSIVE parseTokens(_, _, _)
parseTokens(str, i, stack) ==
  IF i > Len(str) THEN [nodes |-> <<>>, next |-> i]
  ELSE IF str[i].k = "char" THEN
    LET n    == CHOOSE m \in 1..(Len(str) - i + 1) :
                  /\ \A j \in i..(i + m - 1) : str[j].k = "char"
                  /\ (i + m > Len(str) \/ str[i + m].k # "char")
        rest == parseTokens(str, i + n, stack)
    IN  [nodes |-> <<Tx(stripTags(SubSeq(str, i, i + n - 1)))>> \o rest.nodes,
         next  |-> rest.next]
  ELSE IF str[i].k = "close" THEN
    IF str[i].tag \in Range(stack) THEN [nodes |-> <<>>, next |-> i]
    ELSE parseTokens(str, i + 1, stack)
  ELSE IF str[i].tag \in VoidTags THEN
    LET rest == parseTokens(str, i + 1, stack)
    IN  [nodes |-> <<El(str[i].tag, {}, {}, <<>>)>> \o rest.nodes, next |-> rest.next]
  ELSE
    LET inner == parseTokens(str, i + 1, Append(stack, str[i].tag))
        own   == /\ inner.next <= Len(str)
                 /\ str[inner.next].k = "close"
                 /\ str[inner.next].tag = str[i].tag
        rest  == parseTokens(str, IF own THEN inner.next + 1 ELSE inner.next, stack)
    IN  [nodes |-> <<El(str[i].tag, {}, {}, inner.nodes)>> \o rest.nodes,
         next  |-> rest.next]
parseHtml(str) == Number(parseTokens(str, 1, <<>>).nodes, 1)

\* parseHtmlList: the list node as a sequence of one node, <<>> for null.
parseHtmlList(listHtml, isOrdered) ==
  LET \* The texts of the list items that have one.
      listItemTexts(items) ==
        SelectSeq([i \in 1..Len(items) |->
                     decodeHtmlEntities(trim(textContent(items[i])))],
                  LAMBDA t : t # <<>>)
      listOfTexts(tag, texts) ==
        IF Len(texts) = 0 THEN <<>>
        ELSE <<Lex("list", tag, 0,
                   [i \in 1..Len(texts) |->
                      Lex("listitem", "", i,
                          <<Lex("paragraph", "", 0, <<LexText(texts[i])>>)>>)])>>
  IN  listOfTexts(IF isOrdered THEN "ol" ELSE "ul",
                  listItemTexts(SelectSeq(Flatten(parseHtml(listHtml)),
                                          LAMBDA n : IsElement(n) /\ n.tag = "li")))

\* cleanedHtml.split(/(<table[\s\S]*?<\/table>|<ul[\s\S]*?<\/ul>|<ol[\s\S]*?<\/ol>)/gi)
RECURSIVE splitSegments(_)
splitSegments(str) ==
  LET segmentsAround(m) ==
        IF m.from = 0 THEN <<str>>
        ELSE <<SubSeq(str, 1, m.from - 1), SubSeq(str, m.from, m.to)>>
             \o splitSegments(SubSeq(str, m.to + 1, Len(str)))
  IN  segmentsAround(matchRegion(str, {"table", "ul", "ol"}, {}, 1))

\* segment.split(/<\/(?:p|h[1-6]|div)>/i)
RECURSIVE splitBlocks(_)
splitBlocks(str) ==
  LET j == indexOfTag(str, "close", {"p", "div"} \cup HeadingTags, 1)
  IN  IF j = 0 THEN <<str>>
      ELSE <<SubSeq(str, 1, j - 1)>> \o splitBlocks(SubSeq(str, j + 1, Len(str)))

\* Tag names that /<p[^>]*>/ and includes('<li') also take.
ParagraphLikeTags == {"p", "pre", "picture", "param"}
ListItemLikeTags == {"li", "link"}

PlaceholderText == <<"[", "C", "o", "n", "t", "e", "n", "t", " ", "c", "o", "n", "v", "e", "r", "s", "i", "o", "n", " ", "n", "e", "e", "d", "e", "d", "]">>

\* The nodes one block-level chunk of htmlToLexical adds to children.
blockToNodes(block) ==
  LET headingOrNone(tag, text) ==
        IF text # <<>> THEN <<Lex("heading", tag, 0, <<LexText(text)>>)>> ELSE <<>>
      paragraphOrNone(text) ==
        IF text # <<>> THEN <<Lex("paragraph", "", 0, <<LexText(text)>>)>> ELSE <<>>
      \* h and q are where the chunk's first heading and its first paragraph
      \* open (0: nowhere).
      blockNodes(h, q) ==
        IF h > 0
          THEN headingOrNone(block[h].tag, plainText(SubSeq(block, h + 1, Len(block))))
        ELSE IF q > 0 THEN paragraphOrNone(plainText(SubSeq(block, q + 1, Len(block))))
        ELSE IF indexOfTag(block, "open", ListItemLikeTags, 1) = 0
          THEN paragraphOrNone(plainText(block))
        ELSE <<>>
  IN  blockNodes(indexOfTag(block, "open", HeadingTags, 1),
                 indexOfTag(block, "open", ParagraphLikeTags, 1))

RECURSIVE blocksToNodes(_)
blocksToNodes(blocks) ==
  IF blocks = <<>> THEN <<>>
  ELSE (IF trimHtml(blocks[1]) = <<>> THEN <<>> ELSE blockToNodes(trimHtml(blocks[1])))
       \o blocksToNodes(Tail(blocks))

\* The nodes one segment of htmlToLexical adds to children.
segmentToNodes(segment) ==
  IF trimHtml(segment) = <<>> THEN <<>>
  ELSE IF segment[1].k = "open" /\ segment[1].tag = "table" THEN parseHtmlTable(segment)
  ELSE IF segment[1].k = "open" /\ segment[1].tag \in {"ul", "ol"}
    THEN parseHtmlList(segment, segment[1].tag = "ol")
  ELSE blocksToNodes(splitBlocks(segment))

RECURSIVE segmentsToNodes(_)
segmentsToNodes(segments) ==
  IF segments = <<>> THEN <<>>
  ELSE segmentToNodes(segments[1]) \o segmentsToNodes(Tail(segments))

\* htmlToLexical of the post script: the children of the root it returns.
htmlToLexical_post(html) ==
  childrenOr(segmentsToNodes(splitSegments(cleanWordPressHtml(html))),
             Lex("paragraph", "", 0, <<LexText(PlaceholderText)>>))

(***************************************************************************)
(* PART 3: the two migration runs against the content store.               *)
(***************************************************************************)

CallNames == {"fetch", "connect", "find", "download", "mediaCreate",
              "create", "update", "destroy"}
\* The calls that reach the content store (payload.find/create/update).
StoreCalls == {"find", "mediaCreate", "create", "update"}

NoCalls == [c \in CallNames |-> 0]
\* content: 0 when the node carries no content field, else an index of the samples.
NoNode == [found |-> FALSE, content |-> 0, image |-> FALSE]

\* The markup the source may return as `content` in a run (index 1, 2, ...).
PostContents ==
  << <<>>,
     <<El("p", {}, {}, <<Tx(<<"a">>)>>),
       El("ul", {}, {}, <<El("li", {}, {}, <<Tx(<<"b">>)>>)>>)>> >>
PageContents ==
  << <<>>,
     <<El("div", {"wp-block-kadence-rowlayout"}, {},
          <<El("div", {"wp-block-kadence-column"}, {},
               <<El("p", {}, {}, <<Tx(<<"a">>)>>)>>)>>),
       El("sub", {}, {}, <<Tx(<<"A", "u", "t", "e", "u", "r", ":", " ", "A">>)>>)>> >>

Running(r) == pc[r] \notin {"idle", "exited"}

\* process.exit(code), or the exit the top-level then/catch performs.
Exit(r, code) ==
  /\ pc' = [pc EXCEPT ![r] = "exited"]
  /\ exitCode' = [exitCode EXCEPT ![r] = code]
  /\ calls' = calls

\* The continuation reaches `await <call>`: the call is issued.
Await(r, call) ==
  /\ pc' = [pc EXCEPT ![r] = call]
  /\ calls' = [calls EXCEPT ![r][call] = @ + 1]
  /\ exitCode' = exitCode

\* A continuation ends in an exit or in the next awaited call.
Goto(r, next) ==
  IF next = "exit0" THEN Exit(r, 0)
  ELSE IF next = "exit1" THEN Exit(r, 1)
  ELSE Await(r, next)

\* Variant of slugMissing: the argument check left out.
slugNeverMissing(s, arg) == FALSE

\* The module-level argument check: TRUE when the script prints its usage and
\* exits 1.  arg: "none" (no --slug=), "empty" (--slug=), "given" (--slug=x).
slugMissing(s, arg) ==
  IF s = "post" THEN arg # "given"   \* !slug: '' is falsy
  ELSE arg = "none"                  \* !slugArg: '--slug=' is truthy

\* migratePost after `await fetchWordPressPost`: outcome is "throw" (fetch or
\* response.json rejected), "errors" / "nonode" (it returned null) or "node".
postAfterFetch(outcome, hasContent, isDryRun) ==
  IF outcome = "throw" THEN "exit1"          \* .catch: process.exit(1)
  ELSE IF outcome # "node" THEN "exit1"      \* !wpPost: process.exit(1)
  ELSE IF ~hasContent THEN "exit1"           \* wpPost.content.length throws
  ELSE IF isDryRun THEN "exit0"              \* return; .then: process.exit(0)
  ELSE "connect"

\* main after `await fetchWordPressPage`.
pageAfterFetch(outcome, isDryRun) ==
  IF outcome = "throw" THEN "exit1"
  ELSE IF outcome # "node" THEN "exit1"      \* !wpPage: process.exit(1)
  ELSE IF isDryRun THEN "exit0"              \* process.exit(0) after the preview
  ELSE "connect"

\* Variants of postAfterFind: the existence check left out; the image left out.
postWithoutCheck(found, hasImage) == IF hasImage THEN "download" ELSE "create"
postWithoutImage(found, hasImage) == IF found THEN "exit0" ELSE "create"

\* migratePost after `await payload.find`: existing.docs.length > 0 is `found`.
postAfterFind(found, hasImage) ==
  IF found THEN "exit0"
  ELSE IF hasImage THEN "download"
  ELSE "create"

\* Variant of pageAfterFind: a create whatever the find returned.
pageAlwaysCreate(found) == "create"

\* main after `await payload.find`.
pageAfterFind(found) == IF found THEN "update" ELSE "create"

\* Variants of uploadAfterDownload: a failed download ends the run; a failed
\* download is tried again.
uploadOrDie(res) == IF res = "ok" THEN "mediaCreate" ELSE "exit1"
uploadWithRetry(res) == IF res = "ok" THEN "mediaCreate" ELSE "download"
\* Variant of uploadAfterDownload: uploadImage without its catch, a throw of
\* the download reaches the top-level catch.
uploadWithoutCatch(res) ==
  IF res = "throw" THEN "exit1" ELSE IF res = "ok" THEN "mediaCreate" ELSE "create"

\* uploadImage after `await fetch(imageUrl)` and arrayBuffer(): res is "throw",
\* "notok" (!response.ok) or "ok".  "create": it returned null to migratePost.
uploadAfterDownload(res) == IF res = "ok" THEN "mediaCreate" ELSE "create"

\* heroImageId || undefined (0 stands for both null and undefined).
heroImageOf(id) == IF id # 0 THEN id ELSE 0

NextId(coll) == 1 + Cardinality(coll)

\* Variant of createPostDoc: a create that keeps the slug unique.
createUnlessPresent(coll, r, hero, blocks) ==
  IF coll # {} THEN coll
  ELSE {[id |-> 1, by |-> r, heroImage |-> hero, blocks |-> blocks]}

\* payload.create({collection: 'posts', ...}) succeeding: the collection after it.
createPostDoc(coll, r, hero, blocks) ==
  coll \cup {[id |-> NextId(coll), by |-> r, heroImage |-> heroImageOf(hero),
              blocks |-> blocks]}

Invoke(r) ==
  /\ pc[r] = "idle"
  /\ \E s \in {"post", "page"}, arg \in {"none", "empty", "given"}, d \in BOOLEAN :
       /\ script' = [script EXCEPT ![r] = s]
       /\ slugArg' = [slugArg EXCEPT ![r] = arg]
       /\ dryRun' = [dryRun EXCEPT ![r] = d]
       /\ Goto(r, IF slugMissing(s, arg) THEN "exit1" ELSE "fetch")
  /\ UNCHANGED <<wp, findResult, existingId, heroImageId, imageFailed, nBlocks, thrown,
                 storeVars, convVars, deploy>>

\* `await fetchWordPressPost(postSlug)` returns or throws, and migratePost runs
\* on to its next await or to the exit.
fetchWordPressPost(r) ==
  /\ pc[r] = "fetch" /\ script[r] = "post"
  /\ \E outcome \in {"throw", "errors", "nonode", "node"},
        c \in 0..Len(PostContents), img \in BOOLEAN :
       /\ outcome # "node" => (c = 0 /\ ~img)
       /\ wp' = [wp EXCEPT ![r] = [found |-> outcome = "node", content |-> c, image |-> img]]
       /\ thrown' = [thrown EXCEPT ![r] =
            IF outcome = "throw" THEN "fetch"
            ELSE IF postAfterFetch(outcome, c # 0, dryRun[r]) = "exit1" /\ outcome = "node"
              THEN "content.length" ELSE @]
       /\ Goto(r, postAfterFetch(outcome, c # 0, dryRun[r]))
  /\ UNCHANGED <<script, slugArg, dryRun, findResult, existingId, heroImageId,
                 imageFailed, nBlocks, storeVars, convVars, deploy>>

\* `await fetchWordPressPage(pageSlug)` returns or throws; main converts the
\* content and runs on to its next await or to the exit.
fetchWordPressPage(r) ==
  /\ pc[r] = "fetch" /\ script[r] = "page"
  /\ \E outcome \in {"throw", "nonode", "node"}, c \in 0..Len(PageContents) :
       /\ outcome # "node" => c = 0
       /\ wp' = [wp EXCEPT ![r] = [found |-> outcome = "node", content |-> c, image |-> FALSE]]
       /\ thrown' = [thrown EXCEPT ![r] = IF outcome = "throw" THEN "fetch" ELSE @]
       /\ nBlocks' = [nBlocks EXCEPT ![r] =
            IF outcome = "node"
              THEN Len(parseToPayloadBlocks(IF c = 0 THEN <<>> ELSE PageContents[c]))
              ELSE @]
       /\ Goto(r, pageAfterFetch(outcome, dryRun[r]))
  /\ UNCHANGED <<script, slugArg, dryRun, findResult, existingId, heroImageId,
                 imageFailed, storeVars, convVars, deploy>>

\* `await getPayload({ config })`
getPayload(r) ==
  /\ pc[r] = "connect"
  /\ \E ok \in BOOLEAN :
       /\ thrown' = [thrown EXCEPT ![r] = IF ok THEN @ ELSE "connect"]
       /\ Goto(r, IF ok THEN "find" ELSE "exit1")
  /\ UNCHANGED <<script, slugArg, dryRun, wp, findResult, existingId, heroImageId,
                 imageFailed, nBlocks, storeVars, convVars, deploy>>

\* htmlToLexical(wpPost.content), which migratePost runs right before it
\* issues the create.
convertPost(r, next) ==
  nBlocks' = [nBlocks EXCEPT ![r] =
    IF next = "create" THEN Len(htmlToLexical_post(PostContents[wp[r].content])) ELSE @]

\* The three places of migratePost that lead to the create.
towardsCreate(r, next) == convertPost(r, next) /\ Goto(r, next)

\* `await payload.find({collection: 'posts', ...})`
findPost(r) ==
  /\ pc[r] = "find" /\ script[r] = "post"
  /\ \E ok \in BOOLEAN :
       /\ findResult' = [findResult EXCEPT ![r] =
            IF ~ok THEN @ ELSE IF posts # {} THEN "yes" ELSE "no"]
       /\ thrown' = [thrown EXCEPT ![r] = IF ok THEN @ ELSE "find"]
       /\ towardsCreate(r, IF ok THEN postAfterFind(posts # {}, wp[r].image) ELSE "exit1")
  /\ UNCHANGED <<script, slugArg, dryRun, wp, existingId, heroImageId, imageFailed,
                 storeVars, convVars, deploy>>

\* `await payload.find({collection: 'pages', ..., limit: 1})`
findPage(r) ==
  /\ pc[r] = "find" /\ script[r] = "page"
  /\ \/ /\ thrown' = [thrown EXCEPT ![r] = "find"]
        /\ Goto(r, "exit1")
        /\ UNCHANGED <<findResult, existingId>>
     \/ /\ pages = {}
        /\ findResult' = [findResult EXCEPT ![r] = "no"]
        /\ Goto(r, pageAfterFind(FALSE))
        /\ UNCHANGED <<existingId, thrown>>
     \/ \E d \in pages :
          /\ findResult' = [findResult EXCEPT ![r] = "yes"]
          /\ existingId' = [existingId EXCEPT ![r] = d.id]
          /\ Goto(r, pageAfterFind(TRUE))
          /\ UNCHANGED thrown
  /\ UNCHANGED <<script, slugArg, dryRun, wp, heroImageId, imageFailed, nBlocks,
                 storeVars, convVars, deploy>>

\* uploadImage: `await fetch(imageUrl)` and `await response.arrayBuffer()`
downloadImage(r) ==
  /\ pc[r] = "download"
  /\ \E res \in {"throw", "notok", "ok"} :
       /\ imageFailed' = [imageFailed EXCEPT ![r] = uploadAfterDownload(res) # "mediaCreate"]
       /\ thrown' = [thrown EXCEPT ![r] = IF res = "throw" THEN "download" ELSE @]
       /\ towardsCreate(r, uploadAfterDownload(res))
  /\ UNCHANGED <<script, slugArg, dryRun, wp, findResult, existingId, heroImageId,
                 storeVars, convVars, deploy>>

\* uploadImage: `await payload.create({collection: 'media', ...})`; its catch
\* turns a throw into null.
createMedia(r) ==
  /\ pc[r] = "mediaCreate"
  /\ \E ok \in BOOLEAN :
       /\ media' = IF ok THEN media \cup {[id |-> NextId(media), by |-> r]} ELSE media
       /\ heroImageId' = [heroImageId EXCEPT ![r] = IF ok THEN NextId(media) ELSE 0]
       /\ imageFailed' = [imageFailed EXCEPT ![r] = ~ok]
       /\ thrown' = [thrown EXCEPT ![r] = IF ok THEN @ ELSE "mediaCreate"]
  /\ towardsCreate(r, "create")
  /\ UNCHANGED <<script, slugArg, dryRun, wp, findResult, existingId, posts, pages,
                 convVars, deploy>>

\* `await payload.create({collection: 'posts', ...})`
createPost(r) ==
  /\ pc[r] = "create" /\ script[r] = "post"
  /\ \E ok \in BOOLEAN :
       /\ posts' = IF ok THEN createPostDoc(posts, r, heroImageId[r], nBlocks[r]) ELSE posts
       /\ thrown' = [thrown EXCEPT ![r] = IF ok THEN @ ELSE "create"]
       /\ Goto(r, IF ok THEN "exit0" ELSE "exit1")
  /\ UNCHANGED <<script, slugArg, dryRun, wp, findResult, existingId, heroImageId,
                 imageFailed, nBlocks, pages, media, convVars, deploy>>

\* `await payload.create({collection: 'pages', ...})`
createPage(r) ==
  /\ pc[r] = "create" /\ script[r] = "page"
  /\ \E ok \in BOOLEAN :
       /\ pages' = IF ok THEN pages \cup {[id |-> NextId(pages), by |-> r, updatedBy |-> 0]}
                   ELSE pages
       /\ thrown' = [thrown EXCEPT ![r] = IF ok THEN @ ELSE "create"]
       /\ Goto(r, IF ok THEN "destroy" ELSE "exit1")
  /\ UNCHANGED <<script, slugArg, dryRun, wp, findResult, existingId, heroImageId,
                 imageFailed, nBlocks, posts, media, convVars, deploy>>

\* `await payload.update({collection: 'pages', id: existing.docs[0].id, ...})`
updatePage(r) ==
  /\ pc[r] = "update"
  /\ \E ok \in BOOLEAN :
       /\ pages' = IF ok
                     THEN {IF d.id = existingId[r] THEN [d EXCEPT !.updatedBy = r] ELSE d :
                           d \in pages}
                     ELSE pages
       /\ thrown' = [thrown EXCEPT ![r] = IF ok THEN @ ELSE "update"]
       /\ Goto(r, IF ok THEN "destroy" ELSE "exit1")
  /\ UNCHANGED <<script, slugArg, dryRun, wp, findResult, existingId, heroImageId,
                 imageFailed, nBlocks, posts, media, convVars, deploy>>

\* `await payload.db.destroy()`
dbDestroy(r) ==
  /\ pc[r] = "destroy"
  /\ \E ok \in BOOLEAN :
       /\ thrown' = [thrown EXCEPT ![r] = IF ok THEN @ ELSE "destroy"]
       /\ Goto(r, IF ok THEN "exit0" ELSE "exit1")
  /\ UNCHANGED <<script, slugArg, dryRun, wp, findResult, existingId, heroImageId,
                 imageFailed, nBlocks, storeVars, convVars, deploy>>

\* The store before the runs: empty, or holding one document with the slug.
InitStore ==
  /\ posts \in {{}, {[id |-> 1, by |-> 0, heroImage |-> 0, blocks |-> 1]}}
  /\ pages \in {{}, {[id |-> 1, by |-> 0, updatedBy |-> 0]}}
  /\ media = {}

InitRuns(R) ==
  /\ pc = [r \in R |-> "idle"]
  /\ script = [r \in R |-> "-"]
  /\ slugArg = [r \in R |-> "-"]
  /\ dryRun = [r \in R |-> FALSE]
  /\ wp = [r \in R |-> NoNode]
  /\ findResult = [r \in R |-> "-"]
  /\ existingId = [r \in R |-> 0]
  /\ heroImageId = [r \in R |-> 0]
  /\ imageFailed = [r \in R |-> FALSE]
  /\ nBlocks = [r \in R |-> 0]
  /\ thrown = [r \in R |-> "-"]
  /\ exitCode = [r \in R |-> -1]
  /\ calls = [r \in R |-> NoCalls]

\* The deploy script is not part of the migration runs.
NotDeploying == deploy = [pc |-> "off"]

NoConv ==
  /\ convKind = "none" /\ convIn = <<>> /\ convOut = <<>> /\ convDone = FALSE

\* Invocations that may overlap.
Runs == 1..MaxRuns
Init == InitRuns(Runs) /\ InitStore /\ NoConv /\ NotDeploying
Next ==
  \/ \E r \in Runs : Invoke(r)
  \/ \E r \in Runs : fetchWordPressPost(r)
  \/ \E r \in Runs : fetchWordPressPage(r)
  \/ \E r \in Runs : getPayload(r)
  \/ \E r \in Runs : findPost(r)
  \/ \E r \in Runs : findPage(r)
  \/ \E r \in Runs : downloadImage(r)
  \/ \E r \in Runs : createMedia(r)
  \/ \E r \in Runs : createPost(r)
  \/ \E r \in Runs : createPage(r)
  \/ \E r \in Runs : updatePage(r)
  \/ \E r \in Runs : dbDestroy(r)
Spec == Init /\ [][Next]_vars

\* Invocations of the post script one after the other: a run starts when no
\* other is running.
SeqRuns == 1..MaxSeqRuns
InvokeAlone(r) == Invoke(r) /\ script'[r] = "post" /\ \A q \in SeqRuns : ~Running(q)
InitSeq == InitRuns(SeqRuns) /\ InitStore /\ NoConv /\ NotDeploying
NextSeq ==
  \/ \E r \in SeqRuns : InvokeAlone(r)
  \/ \E r \in SeqRuns : fetchWordPressPost(r)
  \/ \E r \in SeqRuns : getPayload(r)
  \/ \E r \in SeqRuns : findPost(r)
  \/ \E r \in SeqRuns : downloadImage(r)
  \/ \E r \in SeqRuns : createMedia(r)
  \/ \E r \in SeqRuns : createPost(r)
SpecSeq == InitSeq /\ [][NextSeq]_vars

(***************************************************************************)
(* PART 3a: the blue-green deploy script (deploy-blue-green.sh, lines 1 to *)
(* 86).  `deploy` holds the script's variables, its position, the colours  *)
(* of the jlam-staging containers docker runs, and the docker commands     *)
(* issued so far.  The script runs under `set -e`: a command that fails    *)
(* outside a condition and without `|| true` ends it with a non-zero       *)
(* status.  docker stop and docker rm take a container away when there is  *)
(* one of that name.                                                       *)
(***************************************************************************)

MAX_ATTEMPTS == 30
Colors == {"blue", "green"}

\* Line 13: the first colour `docker ps | grep -oE "(blue|green)" | head -1`
\* prints.  `|| echo "none"` looks at the status of the pipeline, which is
\* that of head -1 and is 0 also when grep found nothing: the value is then
\* the empty string.
currentColorOf(names) == IF names = <<>> THEN "" ELSE names[1]

\* Lines 15-21.
newColorOf(current) ==
  IF current = "blue" THEN "green"
  ELSE IF current = "green" THEN "blue"
  ELSE "blue"

\* Variants of afterHealthCheck: the last failed attempt falls out of the
\* loop; the last attempt rolls back whether it passed or not.
withoutRollback(passed, attempt) ==
  IF passed \/ attempt = MAX_ATTEMPTS THEN "break" ELSE "sleep"
rollbackAtLast(passed, attempt) ==
  IF attempt = MAX_ATTEMPTS THEN "rollback" ELSE IF passed THEN "break" ELSE "sleep"

\* Lines 50-61, the body of the loop after ATTEMPT was incremented.
afterHealthCheck(passed, attempt) ==
  IF passed THEN "break"
  ELSE IF attempt = MAX_ATTEMPTS THEN "rollback"
  ELSE "sleep"

\* Line 71: [ "$CURRENT_COLOR" != "none" ]
stopsOld(current) == current # "none"

\* docker stop and docker rm of "${SERVICE_NAME}-<color>", both with `|| true`.
stopAndRemove(d, color) ==
  [d EXCEPT !.running = @ \ {color},
            !.issued = @ \o <<[cmd |-> "stop", name |-> color],
                              [cmd |-> "rm", name |-> color]>>]

ended(d, status) == [d EXCEPT !.pc = "exited", !.status = status]
Becomes(d) == deploy' = d /\ UNCHANGED <<runVars, storeVars, convVars>>

\* Lines 12-28: the colours, and cd "$PROJECT_DIR".  names is what the
\* pipeline of line 13 reads: the colours of the running containers in the
\* order docker ps lists them.
DetermineColors ==
  /\ deploy.pc = "colors"
  /\ \E names \in {n \in [1..Cardinality(deploy.running) -> Colors] :
                      Range(n) = deploy.running} :
     \E ok \in BOOLEAN :
       Becomes(IF ok
                 THEN [deploy EXCEPT !.CURRENT_COLOR = currentColorOf(names),
                                     !.NEW_COLOR = newColorOf(currentColorOf(names)),
                                     !.pc = IF deploy.commit THEN "checkout" ELSE "build"]
                 ELSE ended([deploy EXCEPT !.CURRENT_COLOR = currentColorOf(names),
                                           !.NEW_COLOR = newColorOf(currentColorOf(names))],
                            1))

\* Lines 31-35: git fetch origin, git checkout "$1".
Checkout ==
  /\ deploy.pc = "checkout"
  /\ \E ok \in BOOLEAN :
       Becomes(IF ok THEN [deploy EXCEPT !.pc = "build"] ELSE ended(deploy, 1))

\* Line 39: docker compose build.
Build ==
  /\ deploy.pc = "build"
  /\ \E ok \in BOOLEAN :
       Becomes(IF ok THEN [deploy EXCEPT !.pc = "up"] ELSE ended(deploy, 1))

\* Lines 43-47: docker compose up -d, MAX_ATTEMPTS=30, ATTEMPT=0.
Up ==
  /\ deploy.pc = "up"
  /\ \E ok \in BOOLEAN :
       Becomes(IF ok
                 THEN [deploy EXCEPT !.running = @ \cup {deploy.NEW_COLOR},
                                     !.issued = Append(@, [cmd |-> "up", name |-> deploy.NEW_COLOR]),
                                     !.ATTEMPT = 0,
                                     !.pc = "health"]
                 ELSE ended(deploy, 1))

\* Lines 48-64: one turn of the while loop.  A check that passes is noted
\* among the commands issued ("healthy").
HealthCheck ==
  /\ deploy.pc = "health" /\ deploy.ATTEMPT < MAX_ATTEMPTS
  /\ \E passed \in BOOLEAN :
       LET tried == [deploy EXCEPT !.ATTEMPT = @ + 1,
                                   !.issued = IF passed
                                                THEN Append(@, [cmd |-> "healthy",
                                                                name |-> deploy.NEW_COLOR])
                                                ELSE @]
           next  == afterHealthCheck(passed, tried.ATTEMPT)
       IN  Becomes(IF next = "break" THEN [tried EXCEPT !.pc = "verify"]
                   ELSE IF next = "rollback"
                     THEN ended(stopAndRemove(tried, deploy.NEW_COLOR), 1)
                   ELSE tried)

\* Lines 66-75: sleep 5, and the stop of the old container.
StopOld ==
  /\ deploy.pc = "verify"
  /\ Becomes([(IF stopsOld(deploy.CURRENT_COLOR)
                 THEN stopAndRemove(deploy, deploy.CURRENT_COLOR) ELSE deploy)
               EXCEPT !.pc = "prune"])

\* Lines 77-86: docker image prune -f and the closing messages.
Prune ==
  /\ deploy.pc = "prune"
  /\ \E ok \in BOOLEAN : Becomes(ended(deploy, IF ok THEN 0 ELSE 1))

\* The script starts with no, one or both of the containers running, with or
\* without a commit hash as its argument.
InitDeploy ==
  /\ InitRuns({}) /\ posts = {} /\ pages = {} /\ media = {} /\ NoConv
  /\ \E before \in SUBSET Colors : \E commit \in BOOLEAN :
       deploy = [pc |-> "colors", commit |-> commit, before |-> before,
                 running |-> before, CURRENT_COLOR |-> "-", NEW_COLOR |-> "-",
                 ATTEMPT |-> 0, issued |-> <<>>, status |-> -1]

NextDeploy ==
  DetermineColors \/ Checkout \/ Build \/ Up \/ HealthCheck \/ StopOld \/ Prune
SpecDeploy == InitDeploy /\ [][NextDeploy]_vars

(***************************************************************************)
(* PART 4: the converters on their own.  The input is a document made of   *)
(* at most MaxPostItems / MaxPageItems / MaxBlockItems top-level items of  *)
(* the kinds the converters tell apart.                                    *)
(***************************************************************************)

P(text) == El("p", {}, {}, <<Tx(text)>>)
Row(kids) ==
  El("div", {"wp-block-kadence-rowlayout"}, {},
     <<El("div", {"wp-block-kadence-column"}, {},
          <<El("div", {"kt-inside-inner-col"}, {}, kids)>>)>>)

\* Items of an article (input of the post script's htmlToLexical).
PostItems == <<
  P(<<"a">>),
  P(<<>>),
  Tx(<<" ">>),
  El("h2", {}, {}, <<Tx(<<"h">>)>>),
  El("ul", {}, {}, <<El("li", {}, {}, <<Tx(<<"b">>)>>)>>),
  El("ol", {}, {}, <<El("li", {}, {}, <<>>)>>),
  El("table", {}, {}, <<El("tr", {}, {}, <<El("td", {}, {}, <<Tx(<<"c">>)>>)>>)>>),
  El("table", {}, {}, <<>>),
  El("div", {"wp-block-group"}, {}, <<P(<<"d">>)>>),
  El("style", {}, {}, <<Tx(<<"s">>)>>),
  El("div", {}, {}, <<El("span", {}, {}, <<>>)>>) >>

\* Items of cleaned page markup (input of the page script's htmlToLexical).
PageItems == <<
  P(<<"a">>),
  P(<<" ">>),
  Tx(<<"t">>),
  Tx(<<" ">>),
  El("h2", {}, {}, <<Tx(<<"h">>)>>),
  El("ul", {}, {}, <<El("li", {}, {}, <<Tx(<<"b">>)>>), El("li", {}, {}, <<>>)>>),
  El("ol", {}, {}, <<El("li", {}, {}, <<>>)>>),
  El("div", {}, {}, <<P(<<"d">>)>>),
  El("div", {}, {}, <<>>),
  El("img", {}, {}, <<>>) >>

\* Items of a page (input of parseToPayloadBlocks).
BlockItems == <<
  Row(<<P(<<"i">>)>>),
  Row(<<El("h2", {}, {}, <<Tx(<<"h">>)>>), P(<<"c">>)>>),
  El("div", {"wp-block-kadence-advancedheading"}, {}, <<Tx(<<"A", "u", "t", "e", "u", "r", ":", " ", "A">>)>>),
  Row(<<P(<<"e">>), El("p", {}, {}, <<El("sub", {}, {}, <<Tx(<<"a", "u", "t", "e", "u", "r", ":", " ", "B">>)>>)>>)>>),
  El("nav", {"kb-table-of-content-nav"}, {},
     <<El("ul", {}, {}, <<El("li", {}, {}, <<Link(<<"#", "x">>, <<Tx(<<"X">>)>>)>>)>>)>>),
  Row(<<P(<<"N", "i", "e", "u", "w", "s", "b", "r", "i", "e", "f">>)>>),
  Row(<<>>) >>

MaxPostItems == 2
MaxPageItems == 2
MaxBlockItems == 4

\* The documents of at most n of the items.
Docs(items, n) ==
  UNION {{[i \in 1..k |-> items[f[i]]] : f \in [1..k -> 1..Len(items)]} : k \in 0..n}

NoRuns == InitRuns({}) /\ posts = {} /\ pages = {} /\ media = {} /\ NotDeploying

InitConv ==
  /\ NoRuns
  /\ convKind \in {"post", "page", "blocks"}
  /\ convIn \in (CASE convKind = "post" -> Docs(PostItems, MaxPostItems)
                   [] convKind = "page" -> Docs(PageItems, MaxPageItems)
                   [] OTHER -> Docs(BlockItems, MaxBlockItems))
  /\ convOut = <<>>
  /\ convDone = FALSE

Returned(out) ==
  /\ convOut' = out
  /\ convDone' = TRUE
  /\ UNCHANGED <<convKind, convIn, runVars, storeVars, deploy>>

ConvertPost == convKind = "post" /\ ~convDone /\ Returned(htmlToLexical_post(convIn))
ConvertPage == convKind = "page" /\ ~convDone /\ Returned(htmlToLexical_page(convIn))
ParseBlocks == convKind = "blocks" /\ ~convDone /\ Returned(parseToPayloadBlocks(convIn))

NextConv == ConvertPost \/ ConvertPage \/ ParseBlocks
SpecConv == InitConv /\ [][NextConv]_vars

(***************************************************************************)
(* PART 4a: the converters on lists and tables.  The input is one list of  *)
(* at most MaxListItems items, or one table of one or two rows of at most  *)
(* MaxTableCells cells.                                                    *)
(***************************************************************************)

Li(kids) == El("li", {}, {}, kids)
LiItems == {
  Li(<<Tx(<<"a">>)>>),
  Li(<<>>),
  Li(<<Tx(<<" ">>)>>),
  Li(<<Tx(<<"&", "n", "b", "s", "p", ";">>)>>),
  Li(<<El("b", {}, {}, <<Tx(<<"c">>)>>)>>),
  Li(<<Tx(<<"d">>), El("ul", {}, {}, <<Li(<<Tx(<<"e">>)>>)>>)>>) }
CellItems == {
  El("td", {}, {}, <<Tx(<<"c">>)>>),
  El("td", {}, {}, <<>>),
  El("th", {}, {}, <<Tx(<<"h">>)>>),
  El("th", {}, {}, <<Tx(<<" ">>)>>) }

MaxListItems == 3
MaxTableCells == 2

\* The sequences of at most n elements of S.
Tuples(S, n) == UNION {[1..k -> S] : k \in 0..n}

ListDocs ==
  {<<El(tag, {}, {}, lis)>> : tag \in {"ul", "ol"}, lis \in Tuples(LiItems, MaxListItems)}
TableRowItems == {El("tr", {}, {}, cells) : cells \in Tuples(CellItems, MaxTableCells)}
TableDocs ==
  {<<El("table", {}, {}, <<r>>)>> : r \in TableRowItems}
  \cup {<<El("table", {}, {}, <<r, q>>)>> : r \in TableRowItems, q \in TableRowItems}

InitList ==
  /\ NoRuns
  /\ convKind \in {"post", "page"}
  /\ convIn \in (IF convKind = "post" THEN ListDocs \cup TableDocs ELSE ListDocs)
  /\ convOut = <<>>
  /\ convDone = FALSE

NextList == ConvertPost \/ ConvertPage
SpecList == InitList /\ [][NextList]_vars

(***************************************************************************)
(* PART 4b: decodeHtmlEntities on its own.  The input is made of at most   *)
(* MaxTextPieces pieces: plain text, named references, tails of named      *)
(* references, and the decimal and hexadecimal references of some code     *)
(* points.  The function is applied, and applied again to its result.      *)
(***************************************************************************)

\* The digits of n in the radix (10 or 16).
RECURSIVE digitsOf(_, _)
digitsOf(n, radix) ==
  (IF n < radix THEN <<>> ELSE digitsOf(n \div radix, radix))
  \o <<IF n % radix < 10 THEN Digits[(n % radix) + 1] ELSE HexCapitals[(n % radix) - 9]>>
decimalRef(n) == <<"&", "#">> \o digitsOf(n, 10) \o <<";">>
hexRef(n) == <<"&", "#", "x">> \o digitsOf(n, 16) \o <<";">>

\* Code points: & (38), e acute (233), en dash (8211), 65536 + 65, and the
\* emoji U+1F600 (128512).
RefCodePoints == {38, 233, 8211, 65601, 128512}
TextPieces ==
  {<<"a">>, <<"&", "a", "m", "p", ";">>, <<"n", "b", "s", "p", ";">>,
   <<"a", "m", "p", ";">>, <<"&", "l", "t", ";">>, <<"&", "n", "b", "s", "p", ";">>,
   <<"l", "t", ";">>, <<"#", "x", "2", "6", ";">>}
  \cup {decimalRef(n) : n \in RefCodePoints}
  \cup {hexRef(n) : n \in RefCodePoints}

MaxTextPieces == 2

RECURSIVE Concat(_)
Concat(pieces) == IF pieces = <<>> THEN <<>> ELSE pieces[1] \o Concat(Tail(pieces))
Texts == {Concat(pieces) : pieces \in Tuples(TextPieces, MaxTextPieces)}

InitText ==
  /\ NoRuns
  /\ convKind = "text"
  /\ convIn \in Texts
  /\ convOut = <<>>
  /\ convDone = FALSE

\* decoded = decodeHtmlEntities(text)
Decode ==
  /\ convKind = "text" /\ convOut = <<>>
  /\ convOut' = <<decodeHtmlEntities(convIn)>>
  /\ UNCHANGED <<convKind, convIn, convDone, runVars, storeVars, deploy>>
\* decodeHtmlEntities(decoded)
DecodeAgain ==
  /\ convKind = "text" /\ Len(convOut) = 1 /\ ~convDone
  /\ Returned(Append(convOut, decodeHtmlEntities(convOut[1])))

NextText == Decode \/ DecodeAgain
SpecText == InitText /\ [][NextText]_vars

(***************************************************************************)
(* PART 4c: the two sanitizers on their own.  The input is a document of   *)
(* at most MaxCleanItems items that carry class, style and data-*          *)
(* attributes, wrappers, and empty elements, nested and not.  The result   *)
(* is kept as the cleaned tree and as the markup toString() makes of it.   *)
(***************************************************************************)

Attr(name, value) == [name |-> name, value |-> value]
CleanItems == <<
  El("p", {"lead"}, {Attr("style", "color:red")}, <<Tx(<<"a">>)>>),
  El("div", {}, {Attr("data-id", "1")}, <<Tx(<<"b">>)>>),
  El("div", {"wp-block-group"}, {Attr("data-align", "left")}, <<P(<<"c">>)>>),
  El("img", {"wp-block-image"}, {Attr("data-remove", "1"), Attr("onclick", "f()")}, <<>>),
  El("span", {}, {Attr("id", "kb-section-1")}, <<>>),
  El("div", {}, {}, <<El("span", {}, {}, <<>>)>>),
  El("div", {}, {}, <<P(<<>>)>>),
  El("span", {"note"}, {}, <<Tx(<<" ">>)>>) >>

MaxCleanItems == 2

InitClean ==
  /\ NoRuns
  /\ convKind \in {"cleanPost", "cleanPage"}
  /\ convIn \in Docs(CleanItems, MaxCleanItems)
  /\ convOut = <<>>
  /\ convDone = FALSE

\* cleanWordPressHtml(html) of the post script
CleanPost ==
  /\ convKind = "cleanPost" /\ ~convDone
  /\ Returned([tree |-> cleanWordPressTree(convIn), html |-> cleanWordPressHtml(convIn)])
\* cleanHtml(html) of the page script
CleanPage ==
  /\ convKind = "cleanPage" /\ ~convDone
  /\ Returned([tree |-> cleanHtml(convIn), html |-> toString(cleanHtml(convIn))])

NextClean == CleanPost \/ CleanPage
SpecClean == InitClean /\ [][NextClean]_vars

(***************************************************************************)
(* PART 4d: parseTocItems on its own.  The input is a table-of-contents    *)
(* element with a list of at most MaxTocItems items: links with a fragment *)
(* href, with another href, items without a link, repeated labels.         *)
(***************************************************************************)

TocLis == {
  Li(<<Link(<<"#", "x">>, <<Tx(<<"X">>)>>)>>),
  Li(<<Link(<<"#", "y">>, <<Tx(<<"X">>)>>)>>),
  Li(<<Link(<<"/", "p">>, <<Tx(<<" ", "X">>)>>)>>),
  Li(<<Tx(<<"X">>)>>),
  Li(<<Link(<<"#", "z">>, <<Tx(<<"Z">>)>>)>>),
  Li(<<Tx(<<"Z", " ">>)>>),
  Li(<<>>) }

MaxTocItems == 3

InitToc ==
  /\ NoRuns
  /\ convKind = "toc"
  /\ convIn \in {El("nav", {"kb-table-of-content-nav"}, {}, <<El("ul", {}, {}, lis)>>) :
                    lis \in Tuples(TocLis, MaxTocItems)}
  /\ convOut = NoBlock
  /\ convDone = FALSE

\* tocBlock = parseTocItems(toc)
ParseToc == convKind = "toc" /\ ~convDone /\ Returned(parseTocItems(convIn))

NextToc == ParseToc
SpecToc == InitToc /\ [][NextToc]_vars

(***************************************************************************)
(* PART 4e: parseToPayloadBlocks on pages with several attribution         *)
(* elements and several layout rows: at most MaxScanItems items.           *)
(***************************************************************************)

AdvancedHeading(text) == El("div", {"wp-block-kadence-advancedheading"}, {}, <<Tx(text)>>)
ScanItems == <<
  AdvancedHeading(<<"A", "u", "t", "e", "u", "r", ":", " ", "A">>),
  AdvancedHeading(<<"A", "u", "t", "e", "u", "r", ":", " ", "C", " ", "-", " ", "R", "e", "v", "i", "e", "w", "e", "r", ":", " ", "R", ",", " ", "T">>),
  AdvancedHeading(<<"A", "u", "t", "e", "u", "r", ":">>),
  Row(<<P(<<"e">>), El("p", {}, {}, <<El("sub", {}, {}, <<Tx(<<"a", "u", "t", "e", "u", "r", ":", " ", "B">>)>>)>>)>>),
  Row(<<P(<<"i">>)>>),
  Row(<<P(<<"j">>)>>),
  Row(<<El("h2", {}, {}, <<Tx(<<"h">>)>>), P(<<"c">>)>>) >>

MaxScanItems == 3

InitScan ==
  /\ NoRuns
  /\ convKind = "blocks"
  /\ convIn \in Docs(ScanItems, MaxScanItems)
  /\ convOut = <<>>
  /\ convDone = FALSE

NextScan == ParseBlocks
SpecScan == InitScan /\ [][NextScan]_vars

(***************************************************************************)
(* PART 4f: pages whose layout rows hold other layout rows.  Inputs: at    *)
(* most MaxNestedItems top-level rows, one of which has a row inside its   *)
(* column.                                                                 *)
(***************************************************************************)

NestedItems == <<
  Row(<<P(<<"i">>)>>),
  Row(<<P(<<"o">>), Row(<<P(<<"n">>)>>)>>),
  Row(<<El("h2", {}, {}, <<Tx(<<"h">>)>>), P(<<"c">>)>>),
  Row(<<P(<<"j">>)>>) >>

MaxNestedItems == 3

InitNested ==
  /\ NoRuns
  /\ convKind = "blocks"
  /\ convIn \in Docs(NestedItems, MaxNestedItems)
  /\ convOut = <<>>
  /\ convDone = FALSE

NextNested == ParseBlocks
SpecNested == InitNested /\ [][NextNested]_vars

(***************************************************************************)
(* PART 5: the properties.                                                 *)
(***************************************************************************)

AllRuns == DOMAIN pc
Exited(r) == pc[r] = "exited"
StoreCallsOf(r) == {c \in StoreCalls : calls[r][c] > 0}
PostRun(r) == script[r] = "post" /\ ~dryRun[r]
PostsBy(r) == {d \in posts : d.by = r}
MediaBy(r) == {d \in media : d.by = r}

\* C1 (as stated): a run with --dry-run issues no content-store call, whatever
\* the fetch returned, and does not end with a non-zero exit status when the
\* source entry was found.
C1_DryRunClean ==
  \A r \in AllRuns :
    (script[r] # "-" /\ dryRun[r]) =>
      /\ StoreCallsOf(r) = {}
      /\ (Exited(r) /\ wp[r].found) => exitCode[r] = 0

\* C2: a non-dry post run whose existence check returned a match has exited
\* with status 0 and issued no download, media create or post create, and
\* the store holds no document made by it.
C2_SkipExisting ==
  \A r \in AllRuns :
    (PostRun(r) /\ findResult[r] = "yes") =>
      /\ Exited(r) /\ exitCode[r] = 0
      /\ calls[r]["download"] = 0 /\ calls[r]["mediaCreate"] = 0
      /\ calls[r]["create"] = 0
      /\ PostsBy(r) = {} /\ MediaBy(r) = {}
C2_Witness ==
  \E r \in AllRuns : PostRun(r) /\ findResult[r] = "yes" /\ wp[r].image /\ Exited(r)

\* The case of C3: a non-dry post run, a featured image, no document with the
\* slug found, and the image step behind it.
C3_Case(r) ==
  /\ PostRun(r) /\ wp[r].image /\ findResult[r] = "no"
  /\ pc[r] \in {"create", "exited"}

\* C3 (as stated): in that case the image was uploaded exactly once, the
\* content was converted to at least one block and exactly one post create
\* was issued.
C3_UploadedOnce ==
  \A r \in AllRuns :
    C3_Case(r) =>
      /\ calls[r]["mediaCreate"] = 1 /\ Cardinality(MediaBy(r)) = 1
      /\ nBlocks[r] >= 1
      /\ calls[r]["create"] = 1

\* C3 (amended): in that case the image download was issued exactly once and
\* the media create at most once; the image was uploaded exactly once unless
\* its transfer failed, and then not at all; the content was converted to at
\* least one block and exactly one post create was issued.
C3_TransferOnce ==
  \A r \in AllRuns :
    C3_Case(r) =>
      /\ calls[r]["download"] = 1 /\ calls[r]["mediaCreate"] <= 1
      /\ Cardinality(MediaBy(r)) = (IF imageFailed[r] THEN 0 ELSE 1)
      /\ (heroImageId[r] # 0) = ~imageFailed[r]
      /\ nBlocks[r] >= 1
      /\ calls[r]["create"] = 1
C3_Witness ==
  \E r \in AllRuns :
    /\ C3_Case(r) /\ Exited(r) /\ exitCode[r] = 0
    /\ Cardinality(MediaBy(r)) = 1
    /\ \E d \in PostsBy(r) : d.heroImage = heroImageId[r] /\ d.heroImage # 0

\* C4: runs that do not overlap leave at most one document with the slug in
\* posts: at most one run creates, and a run that starts after a document
\* exists finds it and creates nothing.
C4_AtMostOnePost ==
  /\ Cardinality(posts) <= 1
  /\ \A r \in AllRuns : (findResult[r] = "yes") => PostsBy(r) = {}
C4_Witness ==
  \E r1, r2 \in AllRuns :
    /\ r1 # r2
    /\ PostsBy(r1) # {} /\ Exited(r1) /\ exitCode[r1] = 0
    /\ PostRun(r2) /\ findResult[r2] = "yes" /\ Exited(r2) /\ exitCode[r2] = 0

\* The runs whose create has returned a document.
Created(s) ==
  {r \in AllRuns : script[r] = s /\ calls[r]["create"] = 1 /\ thrown[r] # "create"
                   /\ pc[r] \notin {"create"}}

\* C5: nothing serialises overlapping runs.  A run issues its create after one
\* existence check that found nothing, and every create that returns adds a
\* document whatever the collection holds by then: the documents made by the
\* runs are as many as the creates that returned.
C5_CreateNotSerialised ==
  /\ \A r \in AllRuns :
       calls[r]["create"] = 1 => (calls[r]["find"] = 1 /\ findResult[r] = "no")
  /\ Cardinality({d \in posts : d.by # 0}) = Cardinality(Created("post"))
  /\ Cardinality({d \in pages : d.by # 0}) = Cardinality(Created("page"))
C5_Witness ==
  \E r1, r2 \in AllRuns :
    /\ r1 # r2
    /\ PostRun(r1) /\ PostRun(r2)
    /\ findResult[r1] = "no" /\ findResult[r2] = "no"
    /\ PostsBy(r1) # {} /\ PostsBy(r2) # {}
    /\ Cardinality(posts) = 2

\* The fetch of run r returned no content node.
NoNodeReturned(r) ==
  calls[r]["fetch"] = 1 /\ pc[r] # "fetch" /\ ~wp[r].found /\ thrown[r] # "fetch"

\* C6 (as stated): a run ends with a non-zero status when no slug argument was
\* given, when the fetch returned no content node, and when any step threw;
\* in the first two cases it made no content-store call.
C6_FailuresExitNonZero ==
  \A r \in AllRuns :
    Exited(r) =>
      /\ (slugArg[r] = "none" \/ NoNodeReturned(r)) =>
           (exitCode[r] # 0 /\ StoreCallsOf(r) = {})
      /\ thrown[r] # "-" => exitCode[r] # 0

\* C6 (amended): as stated, for every throw but one inside uploadImage (the
\* image download, the media create), which uploadImage catches.
C6_UncaughtExitNonZero ==
  \A r \in AllRuns :
    Exited(r) =>
      /\ (slugArg[r] = "none" \/ NoNodeReturned(r)) =>
           (exitCode[r] # 0 /\ StoreCallsOf(r) = {})
      /\ thrown[r] \notin {"-", "download", "mediaCreate"} => exitCode[r] # 0
C6_Witness ==
  /\ \E r \in AllRuns : Exited(r) /\ slugArg[r] = "none" /\ exitCode[r] = 1
  /\ \E r \in AllRuns : Exited(r) /\ thrown[r] \in {"find", "create", "update"}
                        /\ exitCode[r] = 1

\* C7: when the image transfer failed, uploadImage returned null and the run
\* went on: it converted the content and issued the post create, with no hero
\* image; it ends with a non-zero status only if that create threw.
C7_ImageFailureNotFatal ==
  \A r \in AllRuns :
    imageFailed[r] =>
      /\ heroImageId[r] = 0
      /\ pc[r] \in {"create", "exited"}
      /\ nBlocks[r] >= 1
      /\ calls[r]["create"] = 1
      /\ \A d \in PostsBy(r) : d.heroImage = 0
      /\ (Exited(r) /\ exitCode[r] # 0) => thrown[r] = "create"
C7_Witness ==
  \E r \in AllRuns :
    /\ imageFailed[r] /\ thrown[r] = "mediaCreate"
    /\ Exited(r) /\ exitCode[r] = 0
    /\ \E d \in PostsBy(r) : d.heroImage = 0

\* C8: in one run every external call is issued at most once.
C8_NoRetry ==
  \A r \in AllRuns : \A c \in CallNames : calls[r][c] <= 1
C8_Witness ==
  \E r \in AllRuns :
    /\ Exited(r) /\ imageFailed[r] /\ thrown[r] = "create"
    /\ calls[r]["download"] = 1 /\ calls[r]["create"] = 1

\* Place of a block in the order intro, attribution, table of contents, content.
Rank(b) ==
  IF b.blockType = "auteurReviewer" THEN 2
  ELSE IF b.blockType = "inhoudsopgave" THEN 3
  ELSE IF b.part = "intro" THEN 1
  ELSE 4
Positions(seq, kind) == {i \in 1..Len(seq) : seq[i].blockType = kind}

\* C9: the blocks parseToPayloadBlocks returns come in the order intro blocks,
\* attribution block, table-of-contents block, other content blocks; the
\* content blocks (intro and other) come in the order of their rows in the
\* document; there is at most one attribution block and at most one
\* table-of-contents block.
C9_BlockOrder ==
  (convKind = "blocks" /\ convDone) =>
    /\ \A i, j \in 1..Len(convOut) : i < j => Rank(convOut[i]) <= Rank(convOut[j])
    /\ \A i, j \in Positions(convOut, "content") : i < j => convOut[i].src < convOut[j].src
    /\ Cardinality(Positions(convOut, "auteurReviewer")) <= 1
    /\ Cardinality(Positions(convOut, "inhoudsopgave")) <= 1
C9_Witness ==
  /\ convKind = "blocks" /\ convDone
  /\ Len(convOut) = 4
  /\ Rank(convOut[1]) = 1 /\ Rank(convOut[2]) = 2
  /\ Rank(convOut[3]) = 3 /\ Rank(convOut[4]) = 4
  /\ convIn[1].tag = "nav"

\* Items of which the converters recognise nothing.
UnrecognisedPost == {PostItems[i] : i \in {2, 3, 6, 8, 10, 11}}
UnrecognisedPage == {PageItems[i] : i \in {2, 4, 7, 9, 10}}
NothingRecognised ==
  \A i \in 1..Len(convIn) :
    convIn[i] \in (IF convKind = "post" THEN UnrecognisedPost ELSE UnrecognisedPage)
IsParagraphOf(node, text) ==
  /\ node.type = "paragraph"
  /\ Len(node.children) = 1
  /\ node.children[1].type = "text" /\ node.children[1].text = text

\* C10: neither htmlToLexical returns a root without children; for an input
\* in which nothing is recognised (the empty and the white-space input among
\* them) the root has exactly one child, the placeholder paragraph.
C10_NeverEmptyRoot ==
  (convKind \in {"post", "page"} /\ convDone) =>
    /\ Len(convOut) >= 1
    /\ NothingRecognised =>
         /\ Len(convOut) = 1
         /\ IsParagraphOf(convOut[1], IF convKind = "post" THEN PlaceholderText ELSE <<>>)
C10_Witness ==
  /\ convKind = "post" /\ convDone
  /\ Len(convIn) = 2 /\ NothingRecognised
  /\ Len(convOut) = 1 /\ IsParagraphOf(convOut[1], PlaceholderText)

\* Items of a page that yield no block: the promotional row and the empty row.
BlocklessItems == {BlockItems[i] : i \in {6, 7}}

\* C11: parseToPayloadBlocks never returns an empty list of blocks; for a
\* document of which nothing yields a block (the empty document, or one made
\* of promotional and empty rows only) it returns exactly one block, the
\* placeholder.
C11_NeverEmptyBlocks ==
  (convKind = "blocks" /\ convDone) =>
    /\ Len(convOut) >= 1
    /\ (\A i \in 1..Len(convIn) : convIn[i] \in BlocklessItems) => Len(convOut) = 1

\* All nodes of a sequence of Lexical nodes, in document order.
RECURSIVE LexFlatten(_)
LexFlatten(nodes) ==
  IF nodes = <<>> THEN <<>>
  ELSE <<nodes[1]>> \o LexFlatten(nodes[1].children) \o LexFlatten(Tail(nodes))
Emitted(types) == SelectSeq(LexFlatten(convOut), LAMBDA n : n.type \in types)
SourceElements(tags) == SelectSeq(Flatten(convIn), LAMBDA n : n.tag \in tags)
\* The k-th emitted node stands for the k-th source element: it has one child,
\* a paragraph, which has no child when the element has no text.
EmittedFor(emitted, source) ==
  /\ Len(emitted) = Len(source)
  /\ \A k \in 1..Len(emitted) :
       /\ Len(emitted[k].children) = 1
       /\ emitted[k].children[1].type = "paragraph"
       /\ trim(textContent(source[k])) = <<>> => emitted[k].children[1].children = <<>>

\* C12: no list item and no table cell is left out: there are as many list
\* items in the output as li elements in the source and as many cells as
\* th/td elements, and an item or cell without text has a paragraph child
\* with no children.
C12_NothingOmitted ==
  convDone =>
    /\ EmittedFor(Emitted({"listitem"}), SourceElements({"li"}))
    /\ EmittedFor(Emitted({"tablecell"}), SourceElements({"th", "td"}))

\* C13: in every list of the output the items have the values 1, 2, ..., n
\* in this order, and every item has exactly one child, a paragraph, whose
\* only child is the text node of the item.
C13_SequentialValues ==
  convDone =>
    \A k \in 1..Len(Emitted({"list"})) :
      \A i \in 1..Len(Emitted({"list"})[k].children) :
        /\ Emitted({"list"})[k].children[i].type = "listitem"
        /\ Emitted({"list"})[k].children[i].value = i
        /\ Len(Emitted({"list"})[k].children[i].children) = 1
        /\ Emitted({"list"})[k].children[i].children[1].type = "paragraph"
        /\ Len(Emitted({"list"})[k].children[i].children[1].children) = 1
        /\ Emitted({"list"})[k].children[i].children[1].children[1].type = "text"
        /\ Emitted({"list"})[k].children[i].children[1].children[1].text # <<>>
\* A list whose second item has no text: the third item has the value 2.
C13_Witness ==
  /\ convDone
  /\ Len(convIn[1].kids) = 3
  /\ trim(textContent(convIn[1].kids[2])) = <<>>
  /\ Len(convOut) = 1 /\ convOut[1].type = "list"
  /\ Len(convOut[1].children) = 2
  /\ convOut[1].children[2].value = 2
  /\ convOut[1].children[2].children[1].children[1].text = trim(textContent(convIn[1].kids[3]))

\* C14: decodeHtmlEntities is idempotent: decoding the result of a decoding
\* returns it unchanged.
C14_Idempotent ==
  (convKind = "text" /\ convDone) => convOut[2] = convOut[1]

\* The UTF-16 code units of the character with code point n (n not a surrogate).
Utf16(n) ==
  IF n < 65536 THEN <<fromCharCode(n)>>
  ELSE <<fromCharCode(55296 + ((n - 65536) \div 1024)),
         fromCharCode(56320 + ((n - 65536) % 1024))>>

\* C15: a numeric character reference, decimal or hexadecimal, of a code
\* point n is replaced by the character with code point n, also when n is
\* above 65535; the text around the reference stays.
C15_NumericReference ==
  (convKind = "text" /\ Len(convOut) >= 1) =>
    \A n \in RefCodePoints : \A ref \in {decimalRef(n), hexRef(n)} :
      \A pre, post \in {<<>>, <<"a">>} :
        convIn = pre \o ref \o post => convOut[1] = pre \o Utf16(n) \o post

\* C16: the markup a sanitizer returns has no class attribute, no style
\* attribute and no data-* attribute on any element, in the post script
\* (cleanWordPressHtml) and in the page script (cleanHtml).
C16_NoStylingAttributes ==
  (convKind \in {"cleanPost", "cleanPage"} /\ convDone) =>
    \A i \in 1..Len(Flatten(convOut.tree)) :
      /\ Flatten(convOut.tree)[i].cls = {}
      /\ ~HasAttr(Flatten(convOut.tree)[i], "style")
      /\ \A name \in DataAttrNames : ~HasAttr(Flatten(convOut.tree)[i], name)

\* C20: the markup cleanWordPressHtml returns has no div and no span with
\* empty inner markup: no opening tag of one directly followed by its
\* closing tag.
C20_NoEmptyContainers ==
  (convKind = "cleanPost" /\ convDone) =>
    \A i \in 1..(Len(convOut.html) - 1) :
      ~ /\ convOut.html[i].k = "open" /\ convOut.html[i].tag \in {"div", "span"}
        /\ convOut.html[i + 1].k = "close"

\* The li elements of the table of contents, their labels and their hrefs.
TocSourceLis == convIn.kids[1].kids
TocLabel(li) ==
  trim(textContent(IF li.kids # <<>> /\ li.kids[1].tag = "a" THEN li.kids[1] ELSE li))
TocHref(li) == IF li.kids # <<>> /\ li.kids[1].tag = "a" THEN li.kids[1].href ELSE <<>>
\* Place of the first li with this label.
FirstWithLabel(label) ==
  CHOOSE k \in 1..Len(TocSourceLis) :
    /\ TocLabel(TocSourceLis[k]) = label
    /\ \A j \in 1..(k - 1) : TocLabel(TocSourceLis[j]) # label
TocItems == IF convOut.blockType = "null" THEN <<>> ELSE convOut.items

\* C17: the table-of-contents scan gives every distinct label exactly once, in
\* the order of the labels' first occurrences, each with the anchor of its
\* first occurrence: the fragment of an href that starts with "#", else none.
C17_TocDeduplicated ==
  (convKind = "toc" /\ convDone) =>
    /\ {TocItems[i].label : i \in 1..Len(TocItems)}
         = {TocLabel(TocSourceLis[k]) : k \in 1..Len(TocSourceLis)} \ {<<>>}
    /\ \A i, j \in 1..Len(TocItems) :
         i < j => FirstWithLabel(TocItems[i].label) < FirstWithLabel(TocItems[j].label)
    /\ \A i \in 1..Len(TocItems) :
         /\ TocItems[i].hasAnchor
              = StartsWithAt(TocHref(TocSourceLis[FirstWithLabel(TocItems[i].label)]), 1, <<"#">>)
         /\ TocItems[i].anchor
              = IF TocItems[i].hasAnchor
                  THEN Tail(TocHref(TocSourceLis[FirstWithLabel(TocItems[i].label)]))
                  ELSE <<>>
\* The label X comes first without an anchor, then with the anchor y; Z follows.
C17_Witness ==
  /\ convKind = "toc" /\ convDone
  /\ Len(TocSourceLis) = 3
  /\ TocLabel(TocSourceLis[1]) = <<"X">> /\ TocHref(TocSourceLis[1]) = <<>>
  /\ TocHref(TocSourceLis[2]) = <<"#", "y">>
  /\ Len(TocItems) = 2
  /\ TocItems[1] = [label |-> <<"X">>, hasAnchor |-> FALSE, anchor |-> <<>>]
  /\ TocItems[2] = [label |-> <<"Z">>, hasAnchor |-> TRUE, anchor |-> <<"z">>]

\* The elements the attribution scan looks at, in scan order (the advanced
\* headings, then the sub elements), and those of them that match: the text
\* has the label and an author after it.
ScannedElements ==
  SelectSeq(Flatten(convIn), IsAdvancedHeading)
  \o SelectSeq(Flatten(convIn), LAMBDA n : n.tag = "sub")
MatchingElements ==
  SelectSeq(ScannedElements,
            LAMBDA n : /\ includes(lower(textContent(n)), AuteurLabel)
                       /\ parseAuteurReviewer(textContent(n)).blockType # "null")
BlocksOfType(kind) == {convOut[i] : i \in Positions(convOut, kind)}

\* C18: the attribution block of the page is the one parsed from the first
\* matching element in scan order; a later element that has the label
\* neither replaces nor clears it.  Without a matching element there is no
\* attribution block.
C18_FirstAttributionWins ==
  (convKind = "blocks" /\ convDone) =>
    BlocksOfType("auteurReviewer")
      = IF MatchingElements = <<>> THEN {}
        ELSE {parseAuteurReviewer(textContent(MatchingElements[1]))}

\* The layout row a content block was built from, and whether it has an h2.
SourceRow(block) == GetNode(parse(convIn), block.src)
RowHasH2(row) == \E i \in 1..Len(Flatten(row.kids)) : Flatten(row.kids)[i].tag = "h2"
RowBlockPositions == {i \in Positions(convOut, "content") : convOut[i].src # 0}
FirstRowId == CHOOSE id \in {convOut[i].src : i \in RowBlockPositions} :
                \A i \in RowBlockPositions : id <= convOut[i].src

\* C19: only the first layout row can become an intro block, and it does
\* exactly when it has no h2; the intro block comes before the attribution
\* and table-of-contents blocks, and the block of every later row after
\* them, with or without an h2.
C19_OnlyFirstRowIntro ==
  (convKind = "blocks" /\ convDone) =>
    \A i \in RowBlockPositions :
      /\ convOut[i].part = "intro"
           <=> (convOut[i].src = FirstRowId /\ ~RowHasH2(SourceRow(convOut[i])))
      /\ \A j \in Positions(convOut, "auteurReviewer") \cup Positions(convOut, "inhoudsopgave") :
           IF convOut[i].part = "intro" THEN i < j ELSE j < i

\* One replacement of all references at once, from left to right: a reference
\* of the input is replaced by its character and the scan goes on behind it.
RECURSIVE decodeSimultaneous(_)
decodeSimultaneous(s) ==
  LET numericAt(hex, n) ==
        /\ StartsWithAt(s, 1, IF hex THEN <<"&", "#", "x">> ELSE <<"&", "#">>)
        /\ n > 0
        /\ StartsWithAt(s, (IF hex THEN 4 ELSE 3) + n, <<";">>)
      replaced(k, dec, hexa) ==
        IF k > 0
          THEN <<fromCharCode(namedEntities[k].code)>>
               \o decodeSimultaneous(SubSeq(s, Len(namedEntities[k].ent) + 1, Len(s)))
        ELSE IF numericAt(FALSE, dec)
          THEN <<fromCharCode(parseInt(SubSeq(s, 3, 2 + dec), 10))>>
               \o decodeSimultaneous(SubSeq(s, 4 + dec, Len(s)))
        ELSE IF numericAt(TRUE, hexa)
          THEN <<fromCharCode(parseInt(SubSeq(s, 4, 3 + hexa), 16))>>
               \o decodeSimultaneous(SubSeq(s, 5 + hexa, Len(s)))
        ELSE <<s[1]>> \o decodeSimultaneous(Tail(s))
  IN  IF s = <<>> THEN <<>>
      ELSE replaced(namedAt(s, namedEntities), digitRun(s, 3, FALSE), digitRun(s, 4, TRUE))

\* C21: the result of decodeHtmlEntities does not depend on the order of its
\* three passes: every reference of the input is decoded once and the text a
\* substitution produces is not read again as part of a reference, so the
\* result is that of one simultaneous replacement from left to right.
C21_OrderIndependent ==
  (convKind = "text" /\ Len(convOut) >= 1) => convOut[1] = decodeSimultaneous(convIn)

PageRun(r) == script[r] = "page" /\ ~dryRun[r]
PageWrites(r) == calls[r]["create"] + calls[r]["update"]

\* C22: a page run that is not a dry run and whose find has returned issues
\* exactly one write to the pages collection: an update of the document
\* found when the find returned one, else a create; and no write is issued
\* by a run whose find has not returned.
C22_OneWritePerPageRun ==
  \A r \in AllRuns :
    PageRun(r) =>
      /\ findResult[r] = "yes" =>
           /\ calls[r]["update"] = 1 /\ calls[r]["create"] = 0
           /\ \E d \in pages : d.id = existingId[r]
      /\ findResult[r] = "no" => calls[r]["create"] = 1 /\ calls[r]["update"] = 0
      /\ PageWrites(r) > 0 => calls[r]["find"] = 1 /\ findResult[r] \in {"yes", "no"}
\* One page run created the page, another found it and updated it.
C22_Witness ==
  \E r, q \in AllRuns :
    /\ PageRun(r) /\ PageRun(q) /\ Exited(r) /\ Exited(q)
    /\ findResult[r] = "no" /\ calls[r]["create"] = 1
    /\ findResult[q] = "yes" /\ calls[q]["update"] = 1
    /\ \E d \in pages : d.by = r /\ d.updatedBy = q

\* Places in the commands issued of a command on the container of a colour.
IssuedAt(cmds, name) ==
  {i \in 1..Len(deploy.issued) :
     deploy.issued[i].cmd \in cmds /\ deploy.issued[i].name = name}
ColorsKnown == deploy.pc \notin {"off", "colors"}

\* C23: the deploy script stops and removes the old container (the one of
\* CURRENT_COLOR) only after a health check of the new container has passed:
\* never before one, never without one.
C23_StopOldAfterHealthy ==
  ColorsKnown =>
    /\ \A i \in IssuedAt({"stop", "rm"}, deploy.CURRENT_COLOR) :
         \E j \in IssuedAt({"healthy"}, deploy.NEW_COLOR) : j < i
    /\ (deploy.CURRENT_COLOR \in deploy.before /\ deploy.CURRENT_COLOR \notin deploy.running)
         => IssuedAt({"healthy"}, deploy.NEW_COLOR) # {}
\* Blue was running; green passed its check at a later attempt than the
\* first; blue was stopped and removed after that.
C23_Witness ==
  /\ deploy.pc = "exited" /\ deploy.status = 0
  /\ deploy.before = {"blue"} /\ deploy.running = {"green"}
  /\ deploy.ATTEMPT > 1
  /\ deploy.issued = <<[cmd |-> "up", name |-> "green"], [cmd |-> "healthy", name |-> "green"],
                       [cmd |-> "stop", name |-> "blue"], [cmd |-> "rm", name |-> "blue"]>>

\* The health check of the new container was reached and has not passed.
NeverHealthy ==
  /\ IssuedAt({"up"}, deploy.NEW_COLOR) # {}
  /\ IssuedAt({"healthy"}, deploy.NEW_COLOR) = {}

\* C24: when the health check fails at every attempt the loop ends after
\* exactly MAX_ATTEMPTS attempts: the new container is stopped and removed,
\* the script ends with status 1, and the old container is neither stopped
\* nor removed.  A check that passes at any attempt up to the last one is a
\* success: the new container is not rolled back.
C24_RollbackAfterLastAttempt ==
  ColorsKnown =>
    /\ deploy.ATTEMPT <= MAX_ATTEMPTS
    /\ (deploy.pc = "exited" /\ NeverHealthy) =>
         /\ deploy.ATTEMPT = MAX_ATTEMPTS
         /\ deploy.status = 1
         /\ deploy.NEW_COLOR \notin deploy.running
         /\ IssuedAt({"stop"}, deploy.NEW_COLOR) # {} /\ IssuedAt({"rm"}, deploy.NEW_COLOR) # {}
         /\ IssuedAt({"stop", "rm"}, deploy.CURRENT_COLOR) = {}
         /\ deploy.CURRENT_COLOR \in deploy.before => deploy.CURRENT_COLOR \in deploy.running
    /\ IssuedAt({"healthy"}, deploy.NEW_COLOR) # {} =>
         /\ deploy.pc \in {"verify", "prune", "exited"}
         /\ deploy.NEW_COLOR \in deploy.running
         /\ IssuedAt({"stop", "rm"}, deploy.NEW_COLOR) = {}
\* Green was running; blue never passed: after the last attempt it is gone
\* and green still runs.
C24_Witness ==
  /\ deploy.pc = "exited" /\ deploy.status = 1 /\ NeverHealthy
  /\ deploy.ATTEMPT = MAX_ATTEMPTS
  /\ deploy.before = {"green"} /\ deploy.running = {"green"}
  /\ deploy.issued = <<[cmd |-> "up", name |-> "blue"],
                       [cmd |-> "stop", name |-> "blue"], [cmd |-> "rm", name |-> "blue"]>>

\* C25: when no container is running at the start CURRENT_COLOR is "none",
\* the new colour is blue and no docker stop or rm of an old container is
\* issued (the only container stopped, if any, is the new one); when a
\* colour is running the new colour is the other one.
C25_NoneRunning ==
  ColorsKnown =>
    /\ deploy.before = {} =>
         /\ deploy.CURRENT_COLOR = "none"
         /\ deploy.NEW_COLOR = "blue"
         /\ \A i \in 1..Len(deploy.issued) :
              deploy.issued[i].cmd \in {"stop", "rm"} => deploy.issued[i].name = deploy.NEW_COLOR
    /\ deploy.before # {} =>
         /\ deploy.CURRENT_COLOR \in deploy.before
         /\ deploy.NEW_COLOR \in Colors \ {deploy.CURRENT_COLOR}

\* The tree and the attribution block after step 1 (both scans) of the page
\* conversion of convIn, and the elements that step has marked for removal.
AttributionScan ==
  LET headings == scanHeadings(querySelectorAll(parse(convIn), IsAdvancedHeading), 1,
                               [root |-> parse(convIn), auteur |-> NoBlock])
  IN  scanSubs(querySelectorAll(headings.root, LAMBDA n : n.tag = "sub"), 1, headings)
MarkedByScan == SelectSeq(Flatten(AttributionScan.root), IsMarked)

\* C26: attribution text is never removed without being emitted: when the
\* attribution scan of the page conversion has marked an element, which is
\* then removed from the tree, the returned blocks hold an auteurReviewer
\* block.
C26_RemovedAttributionEmitted ==
  (convKind = "blocks" /\ convDone /\ MarkedByScan # <<>>) =>
    BlocksOfType("auteurReviewer") # {}

\* The text runs of the source with these characters, and the content blocks
\* of the result that hold a text node with them.
SourceRuns(chars) ==
  SelectSeq(Flatten(convIn), LAMBDA n : n.tag = "#text" /\ n.text = chars)
BlocksHolding(chars) ==
  {i \in Positions(convOut, "content") :
     \E k \in 1..Len(LexFlatten(convOut[i].children)) :
       /\ LexFlatten(convOut[i].children)[k].type = "text"
       /\ LexFlatten(convOut[i].children)[k].text = chars}
SourceTexts == {n.text : n \in Range(SelectSeq(Flatten(convIn), LAMBDA n : n.tag = "#text"))}

\* C27: in the page conversion with layout rows every text run of the source
\* is in at most one content block, also when a layout row is inside a
\* column of another one: no more content blocks hold a text than the
\* source has runs of it.
C27_NoDuplicatedContent ==
  (convKind = "blocks" /\ convDone) =>
    \A chars \in SourceTexts :
      Cardinality(BlocksHolding(chars)) <= Len(SourceRuns(chars))

\* A run of the post script that has ended with a non-zero status.
FailedPostRun(r) == script[r] = "post" /\ Exited(r) /\ exitCode[r] # 0

\* C28 (as stated): a run of the post script that ends with a non-zero status
\* leaves the content store unchanged: no document created by the run, post
\* or media, persists.
C28_FailedRunLeavesNothing ==
  \A r \in AllRuns :
    FailedPostRun(r) => (PostsBy(r) = {} /\ MediaBy(r) = {})

\* C28 (amended): a run of the post script that ends with a non-zero status
\* has created no post; once it has reached the image step it fails only by
\* a throw of the post create; and the media document it uploaded before,
\* the one heroImageId names, stays in the store.
C28_FailedRunKeepsUploadedMedia ==
  \A r \in AllRuns :
    FailedPostRun(r) =>
      /\ PostsBy(r) = {}
      /\ calls[r]["download"] > 0 => thrown[r] = "create"
      /\ MediaBy(r) = IF heroImageId[r] # 0 THEN {[id |-> heroImageId[r], by |-> r]} ELSE {}
\* The image was uploaded, the post create threw: the media document stays.
C28_Witness ==
  \E r \in AllRuns :
    /\ FailedPostRun(r) /\ thrown[r] = "create"
    /\ calls[r]["mediaCreate"] = 1 /\ MediaBy(r) # {} /\ PostsBy(r) = {}

====
